---- MODULE Spec2Model ----
(***************************************************************************)
(* Context-compacting coding agent (vrn21/take-home-runable).              *)
(*                                                                         *)
(* The module models the persistence layer (messages and compaction        *)
(* events of a session), the compaction engine (token estimate, trigger,   *)
(* message selection, compact, safeCompact, performCompaction) and the     *)
(* agent loop that drives them (runAgent with prepareStep/onStepFinish).   *)
(*                                                                         *)
(* The specifications:                                                     *)
(*   Spec      the agent loop of one session: initializeMessages, then     *)
(*             steps of prepareStep -> model call -> persistStepMessages;  *)
(*   SpecSafe  a caller that populates a session with saveMessage and      *)
(*             calls safeCompact with a message list and a keepLast value  *)
(*             of its own choosing (as the integration tests do);          *)
(*   SpecDb    a caller of the persistence layer working on two sessions:  *)
(*             saveMessage, markMessagesCompacted, performCompaction with  *)
(*             arguments of its own choosing, and safeCompact on the       *)
(*             loaded list;                                                *)
(*   SpecLive  Spec with weak fairness of the loop (every await settles);  *)
(*   SpecSession  runSession around the agent loop (createSession,         *)
(*             container, status update, cleanup) and a caller of          *)
(*             updateSessionStatus;                                        *)
(*   SpecContent  a caller that stores messages of every content shape,    *)
(*             loads them back and lengthens one text of the loaded list;  *)
(*   SpecSessionLive  SpecSession with weak fairness;                      *)
(*   SpecWriters  two writers to one session, each suspended between its   *)
(*             read of the last sequence and its insert;                   *)
(*   SpecShutdown  runSession and main with the SIGINT/SIGTERM handler of  *)
(*             setupGracefulShutdown;                                      *)
(*   SpecTools  a tool call: execInContainer with its process, its timer   *)
(*             and the value execute returns;                              *)
(*   SpecResume  a caller that writes to a session, then calls runAgent.   *)
(*                                                                         *)
(* Arrays keep the 0-based indexes of the source; At and Slice translate   *)
(* them to the 1-based sequences of TLA+.  Texts are sequences of          *)
(* one-character strings so that length and prefix tests are computed.     *)
(***************************************************************************)
EXTENDS Integers, Sequences, FiniteSets, TLC

VARIABLES
    dbMessages,   \* table "messages": rows in insertion order
    dbEvents,     \* table "compaction_events": rows in insertion order
    pc,           \* position of the single thread of control
    messages,     \* in-memory message list (runAgent's stepMessages / safeCompact's argument)
    config,       \* CompactionConfig in force
    selection,    \* CompactionSelection computed by compact
    round,        \* compact's local `round`
    result,       \* CompactionResult returned by compact (<<>> while there is none)
    tx,           \* arguments and locals of the performCompaction call in flight
    err,          \* which statement threw ("none" when nothing did)
    ret,          \* value handed back by safeCompact: <<>> or <<list>>
    newMessages,  \* response.messages of the step being finished
    steps,        \* number of agent steps started
    snap,         \* history: persisted state when safeCompact was called
    rounds,       \* history: rounds returned by the completed compact calls
    commits,      \* history: number of performCompaction calls that resolved
    observed,     \* history: what a reader interleaved with performCompaction saw
    session,      \* sessionId of the call in progress
    dbSessions,   \* table "sessions": rows in insertion order
    modelCalls,   \* generateText calls made by the safeCompact call in progress
    originalTask, \* compact's originalTask, <<>> until it is extracted
    run,          \* runSession: container ids, cleanups, outcome, error thrown, signal
    exec          \* a tool call: the docker exec process, its timer and what came back

vars == <<dbMessages, dbEvents, pc, messages, config, selection, round, result,
          tx, err, ret, newMessages, steps, snap, rounds, commits, observed, session,
          dbSessions, modelCalls, originalTask, run, exec>>

----------------------------------------------------------------------------
(* Bounds *)

MaxSteps == 3      \* agent steps explored (stepCountIs(50) in the source)
MaxKeep == 2       \* largest recentMessagesToKeep explored
MaxLen == 4        \* longest message list handed to safeCompact by the SpecSafe caller
MaxRows == 3       \* rows the callers of SpecSafe and SpecDb save with saveMessage
MaxParts == 2      \* most parts in a structured message content
MaxGrow == 4       \* most characters one edit adds to a text
MaxCompactions == 2  \* compaction events the SpecDb caller lets accumulate

----------------------------------------------------------------------------
(* Texts *)

Sid == "s1"

\* '## Session Summary', the prefix selectMessagesToCompact tests for
SummaryMarker ==
    <<"#", "#", " ", "S", "e", "s", "s", "i", "o", "n", " ",
      "S", "u", "m", "m", "a", "r", "y">>

Digits == <<"1", "2", "3", "4", "5", "6", "7", "8", "9">>

RoundText(r) == <<" ", "(", "R", " ">> \o <<Digits[r]>> \o <<")">>

\* Texts the model may return from generateSummary for round r.  The code
\* returns the model's text as it is, so the set holds a text that begins
\* with the marker, the heading the prompt asks for ('### Session Summary
\* (Compaction Round r)'), and a text with neither.
MarkerSummary(r) == SummaryMarker \o RoundText(r)
HeadingSummary(r) == <<"#">> \o SummaryMarker \o RoundText(r)
PlainSummary(r) == <<"O", "k">> \o RoundText(r)

ModelSummaries(r) == {MarkerSummary(r), HeadingSummary(r), PlainSummary(r)}

SystemPromptText == <<"s", "y", "s">>
TaskText == <<"t", "a", "s", "k">>
AssistantText == <<"c", "a", "l", "l">>
ToolText == <<"o", "u", "t">>

StartsWith(s, p) == Len(s) >= Len(p) /\ SubSeq(s, 1, Len(p)) = p

\* A ModelMessage; content is a tagged value, here always a string
Str(t) == [type |-> "string", text |-> t]
Msg(r, t) == [role |-> r, content |-> Str(t)]

\* 0-based array access; slice clamps its end to the length as Array.slice does
At(a, i) == a[i + 1]
Slice(a, from, to) == SubSeq(a, from + 1, IF to < Len(a) THEN to ELSE Len(a))
\* variant: the element at the start index is left out
SliceFromNext(a, from) == SubSeq(a, from + 2, Len(a))

SliceFrom(a, from) == SubSeq(a, from + 1, Len(a))

----------------------------------------------------------------------------
(* Structured content and its JSON text *)

\* '__content_json__:'
CONTENT_JSON_PREFIX ==
    <<"_", "_", "c", "o", "n", "t", "e", "n", "t", "_", "j", "s", "o", "n", "_", "_", ":">>

Quote == "\""
Backslash == "\\"

\* content that is an array of parts
Parts(ps) == [type |-> "parts", parts |-> ps]

TextPart(t) == [type |-> "text", text |-> t]
ToolCallPart(name, input) == [type |-> "tool-call", toolName |-> name, input |-> input]
ToolResultPart(name, output) == [type |-> "tool-result", toolName |-> name, output |-> output]

\* the characters of a string between the quotes of its JSON text
RECURSIVE JSONEscape(_)
JSONEscape(t) ==
    IF t = <<>> THEN <<>>
    ELSE (IF Head(t) \in {Quote, Backslash} THEN <<Backslash, Head(t)>> ELSE <<Head(t)>>)
         \o JSONEscape(Tail(t))

\* JSON.stringify of a string
JSONString(t) == <<Quote>> \o JSONEscape(t) \o <<Quote>>

\* "key":"value"
JSONMember(key, t) == JSONString(key) \o <<":">> \o JSONString(t)

\* the keys of a part and the values of its type
JSONNames ==
    [type |-> <<"t", "y", "p", "e">>,
     text |-> <<"t", "e", "x", "t">>,
     toolName |-> <<"t", "o", "o", "l", "N", "a", "m", "e">>,
     input |-> <<"i", "n", "p", "u", "t">>,
     output |-> <<"o", "u", "t", "p", "u", "t">>,
     toolCall |-> <<"t", "o", "o", "l", "-", "c", "a", "l", "l">>,
     toolResult |-> <<"t", "o", "o", "l", "-", "r", "e", "s", "u", "l", "t">>]

\* JSON.stringify of one part: its members in the order of the object's keys
JSONPart(p) ==
    <<"{">> \o
    (IF p.type = "text"
     THEN JSONMember(JSONNames.type, JSONNames.text) \o <<",">> \o JSONMember(JSONNames.text, p.text)
     ELSE IF p.type = "tool-call"
     THEN JSONMember(JSONNames.type, JSONNames.toolCall) \o <<",">> \o JSONMember(JSONNames.toolName, p.toolName)
          \o <<",">> \o JSONMember(JSONNames.input, p.input)
     ELSE JSONMember(JSONNames.type, JSONNames.toolResult) \o <<",">> \o JSONMember(JSONNames.toolName, p.toolName)
          \o <<",">> \o JSONMember(JSONNames.output, p.output))
    \o <<"}">>

RECURSIVE JSONElements(_)
JSONElements(ps) ==
    IF ps = <<>> THEN <<>>
    ELSE IF Len(ps) = 1 THEN JSONPart(Head(ps))
    ELSE JSONPart(Head(ps)) \o <<",">> \o JSONElements(Tail(ps))

\* JSON.stringify of a content value: a string or an array of parts
JSONStringify(content) ==
    IF content.type = "string" THEN JSONString(content.text)
    ELSE <<"[">> \o JSONElements(content.parts) \o <<"]">>

\* the texts and parts the structured contents are made of
PartTexts == { <<"a">>, <<Quote>> }
ToolNames == { <<"s", "h">> }

PartValues ==
    {TextPart(t) : t \in PartTexts}
    \cup {ToolCallPart(n, t) : n \in ToolNames, t \in PartTexts}
    \cup {ToolResultPart(n, t) : n \in ToolNames, t \in PartTexts}

PartLists == UNION { [1..n -> PartValues] : n \in 0..MaxParts }

\* the JSON values the texts of these specifications can denote
JsonValues == {Str(t) : t \in PartTexts} \cup {Parts(ps) : ps \in PartLists}

\* JSON.parse: <<value>> when the text is the JSON text of a value, <<>>
\* when it throws
JSONParse(text) ==
    LET hits == {v \in JsonValues : JSONStringify(v) = text}
    IN  IF hits = {} THEN <<>> ELSE <<CHOOSE v \in hits : TRUE>>

----------------------------------------------------------------------------
(* Token estimate *)

estimateTokensFloor(text) == Len(text) \div 4

\* Math.ceil(text.length / 4)
estimateTokens(text) == (Len(text) + 3) \div 4

\* one part of a structured content: its text, or its tool name with the
\* JSON text of its input and of its output
EstimatePart(p) ==
    IF "text" \in DOMAIN p THEN estimateTokens(p.text)
    ELSE IF "toolName" \in DOMAIN p
    THEN estimateTokens(p.toolName)
         + (IF "args" \in DOMAIN p THEN estimateTokens(JSONString(p.args))
            ELSE IF "input" \in DOMAIN p THEN estimateTokens(JSONString(p.input))
            ELSE 0)
         + (IF "output" \in DOMAIN p THEN estimateTokens(JSONString(p.output))
            ELSE IF "result" \in DOMAIN p THEN estimateTokens(JSONString(p.result))
            ELSE 0)
    ELSE 0

RECURSIVE EstimateParts(_)
EstimateParts(ps) ==
    IF ps = <<>> THEN 0 ELSE EstimatePart(Head(ps)) + EstimateParts(Tail(ps))

\* 2 per message plus the estimate of its content
RECURSIVE estimateMessagesTokens(_)
estimateMessagesTokens(msgs) ==
    IF msgs = <<>> THEN 0
    ELSE 2 + (IF Head(msgs).content.type = "string"
              THEN estimateTokens(Head(msgs).content.text)
              ELSE EstimateParts(Head(msgs).content.parts))
           + estimateMessagesTokens(Tail(msgs))

\* Math.floor(available * thresholdPercent), thresholdPercent as a fraction
calculateThreshold(cfg) ==
    ((cfg.modelContextLimit - cfg.systemReserve - cfg.outputReserve - cfg.safetyBuffer)
        * cfg.thresholdNum) \div cfg.thresholdDen

\* variant: the length of the list is not looked at
shouldCompactAnyLength(msgs, cfg) == estimateMessagesTokens(msgs) >= calculateThreshold(cfg)

\* variant: an estimate equal to the threshold does not trigger
shouldCompactStrict(msgs, cfg) ==
    IF Len(msgs) <= cfg.recentMessagesToKeep + 1
    THEN FALSE
    ELSE estimateMessagesTokens(msgs) > calculateThreshold(cfg)

shouldCompact(msgs, cfg) ==
    IF Len(msgs) <= cfg.recentMessagesToKeep + 1
    THEN FALSE
    ELSE estimateMessagesTokens(msgs) >= calculateThreshold(cfg)

----------------------------------------------------------------------------
(* Persistence layer *)

Max(S) == CHOOSE x \in S : \A y \in S : y <= x

RowsOf(rows, sid) == SelectSeq(rows, LAMBDA r : r.sessionId = sid)

\* variant: retired rows are not counted
LastSequenceActive(rows, sid) ==
    LET own == SelectSeq(rows, LAMBDA r : r.sessionId = sid /\ r.isCompacted = 0)
    IN  IF own = <<>> THEN 0 ELSE Max({own[i].sequence : i \in 1..Len(own)})

\* variant: the rows of every session are counted
LastSequenceAnySession(rows, sid) ==
    IF rows = <<>> THEN 0 ELSE Max({rows[i].sequence : i \in 1..Len(rows)})

\* select seq ... order by sequence desc limit 1, then (lastMsg[0]?.seq ?? 0)
LastSequence(rows, sid) ==
    LET own == RowsOf(rows, sid)
    IN  IF own = <<>> THEN 0 ELSE Max({own[i].sequence : i \in 1..Len(own)})

\* the place of rows[i] in the order by sequence asc (rows of equal sequence
\* keep their insertion order)
PlaceBySequence(rows, i) ==
    1 + Cardinality({j \in 1..Len(rows) :
                        \/ rows[j].sequence < rows[i].sequence
                        \/ (rows[j].sequence = rows[i].sequence /\ j < i)})

\* order by sequence asc
OrderBySequence(rows) ==
    [k \in 1..Len(rows) |-> rows[CHOOSE i \in 1..Len(rows) : PlaceBySequence(rows, i) = k]]

NewRow(rows, sid, role, content, tokenCount) ==
    [sessionId |-> sid, sequence |-> LastSequence(rows, sid) + 1, role |-> role,
     content |-> content, tokenCount |-> tokenCount, isCompacted |-> 0]

saveMessage(rows, sid, role, content, tokenCount) ==
    Append(rows, NewRow(rows, sid, role, content, tokenCount))

\* variant: the retired rows are returned too
getActiveMessagesAll(rows, sid) ==
    OrderBySequence(RowsOf(rows, sid))

getActiveMessages(rows, sid) ==
    OrderBySequence(SelectSeq(rows, LAMBDA r : r.sessionId = sid /\ r.isCompacted = 0))

\* order by round desc limit 1; <<>> stands for null
getLastCompactionEvent(events, sid) ==
    LET own == RowsOf(events, sid)
    IN  IF own = <<>> THEN <<>>
        ELSE LET top == Max({own[i].round : i \in 1..Len(own)})
                 first == CHOOSE i \in 1..Len(own) :
                            /\ own[i].round = top
                            /\ \A j \in 1..(i - 1) : own[j].round # top
             IN  <<own[first]>>

\* a row whose text begins with the prefix and parses as JSON yields the
\* parsed value as content; any other row yields its text
dbMessageToCoreMessage(row) ==
    IF StartsWith(row.content, CONTENT_JSON_PREFIX)
    THEN LET parsed == JSONParse(SubSeq(row.content, Len(CONTENT_JSON_PREFIX) + 1,
                                        Len(row.content)))
         IN  IF parsed # <<>>
             THEN [role |-> row.role, content |-> parsed[1]]
             ELSE [role |-> row.role, content |-> Str(row.content)]
    ELSE [role |-> row.role, content |-> Str(row.content)]

loadActiveMessages(rows, sid) ==
    LET active == getActiveMessages(rows, sid)
    IN  [i \in 1..Len(active) |-> dbMessageToCoreMessage(active[i])]

\* string content is stored as it is, structured content as the prefix
\* followed by its JSON text
serializeMessageContent(m) ==
    IF m.content.type = "string" THEN m.content.text
    ELSE CONTENT_JSON_PREFIX \o JSONStringify(m.content)

\* variant: the flag of every row below the boundary sequence is flipped
markMessagesFlipped(rows, sid, beforeSequence) ==
    [i \in 1..Len(rows) |->
        IF rows[i].sessionId = sid /\ rows[i].sequence < beforeSequence
        THEN [rows[i] EXCEPT !.isCompacted = 1 - @]
        ELSE rows[i]]

\* variant: the rows below the boundary sequence are deleted
markMessagesDeleted(rows, sid, beforeSequence) ==
    SelectSeq(rows, LAMBDA r : ~(r.sessionId = sid /\ r.sequence < beforeSequence
                                  /\ r.isCompacted = 0))

\* update messages set is_compacted = 1
\*   where session_id = ? and sequence < ? and is_compacted = 0
markMessagesCompacted(rows, sid, beforeSequence) ==
    [i \in 1..Len(rows) |->
        IF /\ rows[i].sessionId = sid
           /\ rows[i].sequence < beforeSequence
           /\ rows[i].isCompacted = 0
        THEN [rows[i] EXCEPT !.isCompacted = 1]
        ELSE rows[i]]

\* variant: the row at the boundary sequence is retired too
RetireThrough(rows, sid, beforeSequence) ==
    [i \in 1..Len(rows) |->
        IF rows[i].sessionId = sid /\ rows[i].sequence <= beforeSequence
        THEN [rows[i] EXCEPT !.isCompacted = 1]
        ELSE rows[i]]

\* statement 2 of performCompaction: every row of the session below the
\* boundary sequence, whatever its role or sequence
RetireBelow(rows, sid, beforeSequence) ==
    [i \in 1..Len(rows) |->
        IF rows[i].sessionId = sid /\ rows[i].sequence < beforeSequence
        THEN [rows[i] EXCEPT !.isCompacted = 1]
        ELSE rows[i]]

EventRow(sid, metrics, summaryContent) ==
    [sessionId |-> sid, round |-> metrics.round, tokensBefore |-> metrics.tokensBefore,
     tokensAfter |-> metrics.tokensAfter, summaryContent |-> summaryContent]

\* variant: the summary row is written as already retired
SummaryRowRetired(sid, lastSeq, summaryMessage) ==
    [sessionId |-> sid, sequence |-> lastSeq + 1, role |-> "assistant",
     content |-> summaryMessage.content, tokenCount |-> summaryMessage.tokenCount,
     isCompacted |-> 1]

SummaryRow(sid, lastSeq, summaryMessage) ==
    [sessionId |-> sid, sequence |-> lastSeq + 1, role |-> "assistant",
     content |-> summaryMessage.content, tokenCount |-> summaryMessage.tokenCount,
     isCompacted |-> 0]

----------------------------------------------------------------------------
(* Message selection *)

\* messages[i]?.role
RoleAt(msgs, i) == IF i >= 0 /\ i < Len(msgs) THEN At(msgs, i).role ELSE "undefined"

\* variant: the boundary starts one message too late
InitialBoundaryOffByOne(msgs, keepLast) == Len(msgs) - keepLast + 1

InitialBoundary(msgs, keepLast) == Len(msgs) - keepLast

\* variant: the boundary is left where the tail size puts it
WalkBackNone(msgs, b) == b

\* variant: the boundary moves back over one tool message only
WalkBackOnce(msgs, b) == IF b > 1 /\ RoleAt(msgs, b) = "tool" THEN b - 1 ELSE b

\* while (boundaryIndex > 1 && messages[boundaryIndex]?.role === 'tool') boundaryIndex--
RECURSIVE WalkBack(_, _)
WalkBack(msgs, b) ==
    IF b > 1 /\ RoleAt(msgs, b) = "tool" THEN WalkBack(msgs, b - 1) ELSE b

IsPreviousSummary(msgs) ==
    /\ RoleAt(msgs, 1) = "assistant"
    /\ At(msgs, 1).content.type = "string"
    /\ StartsWith(At(msgs, 1).content.text, SummaryMarker)

\* variant: the previous summary stays in the range to summarize
CompactionStartIndexNoSkip(found) == 1

\* let compactionStartIndex = 1; ... compactionStartIndex = 2 (skip the summary message)
CompactionStartIndex(found) == IF found THEN 2 ELSE 1

\* previousSummary is <<>> for null, <<text>> otherwise
selectMessagesToCompact(msgs, keepLast) ==
    IF Len(msgs) <= keepLast + 1
    THEN [messagesToCompact |-> <<>>, messagesToKeep |-> msgs,
          previousSummary |-> <<>>, boundaryIndex |-> 0]
    ELSE LET boundaryIndex == WalkBack(msgs, InitialBoundary(msgs, keepLast))
             found == IsPreviousSummary(msgs)
             previousSummary == IF found THEN <<At(msgs, 1).content.text>> ELSE <<>>
             compactionStartIndex == CompactionStartIndex(found)
         IN  IF boundaryIndex <= compactionStartIndex
             THEN [messagesToCompact |-> <<>>, messagesToKeep |-> msgs,
                   previousSummary |-> previousSummary, boundaryIndex |-> 0]
             ELSE [messagesToCompact |-> Slice(msgs, compactionStartIndex, boundaryIndex),
                   messagesToKeep |-> <<At(msgs, 0)>> \o SliceFrom(msgs, boundaryIndex),
                   previousSummary |-> previousSummary,
                   boundaryIndex |-> boundaryIndex]

----------------------------------------------------------------------------
(* compact *)

NoSelection == [messagesToCompact |-> <<>>, messagesToKeep |-> <<>>,
                previousSummary |-> <<>>, boundaryIndex |-> 0]

\* variant: the no-op result counts as a round
NoOpResultCounted(msgs) ==
    [compactedMessages |-> msgs, boundaryIndex |-> 0, round |-> 1,
     tokensBefore |-> estimateMessagesTokens(msgs),
     tokensAfter |-> estimateMessagesTokens(msgs), summaryContent |-> <<>>]

\* the result compact returns when nothing is selected
NoOpResult(msgs) ==
    [compactedMessages |-> msgs, boundaryIndex |-> 0, round |-> 0,
     tokensBefore |-> estimateMessagesTokens(msgs),
     tokensAfter |-> estimateMessagesTokens(msgs), summaryContent |-> <<>>]

\* variant: the increment is lost once an event exists
NextRoundNoIncrement(lastEvent) == IF lastEvent = <<>> THEN 1 ELSE lastEvent[1].round

\* (lastEvent?.round ?? 0) + 1
NextRound(lastEvent) == (IF lastEvent = <<>> THEN 0 ELSE lastEvent[1].round) + 1

UnknownTask == <<"U", "n", "k", "n", "o", "w", "n", " ", "t", "a", "s", "k">>

\* the string content of the first user message that has one
RECURSIVE extractOriginalTask(_)
extractOriginalTask(msgs) ==
    IF msgs = <<>> THEN UnknownTask
    ELSE IF Head(msgs).role = "user" /\ Head(msgs).content.type = "string"
    THEN Head(msgs).content.text
    ELSE extractOriginalTask(Tail(msgs))

\* variant: the kept list is appended whole
CompactedMessagesKeepAll(sel, summaryContent) ==
    <<At(sel.messagesToKeep, 0), Msg("assistant", summaryContent)>> \o sel.messagesToKeep

\* [system, summary] ++ messagesToKeep.slice(1)
CompactedMessages(sel, summaryContent) ==
    <<At(sel.messagesToKeep, 0), Msg("assistant", summaryContent)>>
        \o SliceFrom(sel.messagesToKeep, 1)

\* variant: tokensAfter repeats tokensBefore
CompactionResultStaleTokens(msgs, sel, r, summaryContent) ==
    [compactedMessages |-> CompactedMessages(sel, summaryContent),
     boundaryIndex |-> sel.boundaryIndex, round |-> r,
     tokensBefore |-> estimateMessagesTokens(msgs),
     tokensAfter |-> estimateMessagesTokens(msgs),
     summaryContent |-> summaryContent]

\* the result compact returns after a summary was generated
CompactionResult(msgs, sel, r, summaryContent) ==
    [compactedMessages |-> CompactedMessages(sel, summaryContent),
     boundaryIndex |-> sel.boundaryIndex, round |-> r,
     tokensBefore |-> estimateMessagesTokens(msgs),
     tokensAfter |-> estimateMessagesTokens(CompactedMessages(sel, summaryContent)),
     summaryContent |-> summaryContent]

----------------------------------------------------------------------------
(* safeCompact: compact, boundary translation, performCompaction *)

NoTx == [beforeSequence |-> 0,
         summaryMessage |-> [role |-> "assistant", content |-> <<>>, tokenCount |-> 0],
         metrics |-> [round |-> 0, tokensBefore |-> 0, tokensAfter |-> 0],
         lastSeq |-> 0]

Persisted == [messages |-> dbMessages, events |-> dbEvents]

\* entry of safeCompact(messages, sessionId, model, config)
EnterSafeCompact ==
    /\ pc' = "sc_compact"
    /\ snap' = Persisted
    /\ selection' = NoSelection
    /\ round' = 0
    /\ result' = <<>>
    /\ tx' = NoTx
    /\ err' = "none"
    /\ ret' = <<>>
    /\ observed' = <<>>
    /\ modelCalls' = 0
    /\ originalTask' = <<>>

\* result.boundaryIndex === undefined || result.boundaryIndex >= activeMessages.length
InvalidBoundary(boundaryIndex, active) == boundaryIndex >= Len(active)

\* activeMessages[result.boundaryIndex].sequence
BoundarySequence(active, boundaryIndex) == At(active, boundaryIndex).sequence

\* the arguments safeCompact passes to performCompaction
CommitArgs(active, res) ==
    [beforeSequence |-> BoundarySequence(active, res.boundaryIndex),
     summaryMessage |-> [role |-> "assistant", content |-> res.summaryContent,
                         tokenCount |-> estimateTokens(res.summaryContent)],
     metrics |-> [round |-> res.round, tokensBefore |-> res.tokensBefore,
                  tokensAfter |-> res.tokensAfter],
     lastSeq |-> 0]

\* variant: the catch block hands back the compacted list when there is one
CatchValueCompacted(msgs, res) == IF res = <<>> THEN msgs ELSE res[1].compactedMessages

\* catch (error) { ...; return messages; }
CatchValue(msgs, res) == msgs

\* compact, up to its first await: token estimate and selection; the no-op
\* result makes safeCompact return at once
CompactSelect ==
    /\ pc = "sc_compact"
    /\ LET sel == selectMessagesToCompact(messages, config.recentMessagesToKeep)
       IN  /\ selection' = sel
           /\ IF Len(sel.messagesToCompact) = 0
              THEN /\ result' = <<NoOpResult(messages)>>
                   /\ ret' = <<NoOpResult(messages).compactedMessages>>
                   /\ pc' = "sc_returned"
              ELSE /\ pc' = "sc_lastEvent"
                   /\ UNCHANGED <<exec, result, ret>>
    /\ UNCHANGED <<exec, dbSessions, run, originalTask, modelCalls, session, dbMessages, dbEvents, messages, config, round, tx, err,
                   newMessages, steps, snap, rounds, commits, observed>>

\* await getLastCompactionEvent(sessionId); round = (lastEvent?.round ?? 0) + 1
CompactLastEvent ==
    /\ pc = "sc_lastEvent"
    /\ \/ /\ round' = NextRound(getLastCompactionEvent(dbEvents, session))
          /\ originalTask' = <<extractOriginalTask(messages)>>
          /\ pc' = "sc_generate"
          /\ err' = err
       \/ /\ err' = "lastEvent"
          /\ pc' = "sc_error"
          /\ UNCHANGED <<exec, round, originalTask>>
    /\ UNCHANGED <<exec, dbSessions, run, modelCalls, session, dbMessages, dbEvents, messages, config, selection, result, tx, ret,
                   newMessages, steps, snap, rounds, commits, observed>>

\* await generateSummary(...): the model returns a text or the call throws;
\* then the new list and the result are assembled and compact returns
CompactGenerate ==
    /\ pc = "sc_generate"
    /\ modelCalls' = modelCalls + 1
    /\ \/ \E text \in ModelSummaries(round) :
            /\ result' = <<CompactionResult(messages, selection, round, text)>>
            /\ rounds' = Append(rounds, round)
            /\ pc' = "sc_active"
            /\ err' = err
       \/ /\ err' = "generate"
          /\ pc' = "sc_error"
          /\ UNCHANGED <<exec, result, rounds>>
    /\ UNCHANGED <<exec, dbSessions, run, originalTask, session, dbMessages, dbEvents, messages, config, selection, round, tx, ret,
                   newMessages, steps, snap, commits, observed>>

\* await getActiveMessages(sessionId), the range check and the translation
\* of the boundary index; performCompaction is then called.  The callback
\* given to database.transaction is async: it suspends at its first await
\* before any statement has run, the synchronous transaction wrapper of the
\* driver commits at that point, and the statements below run one by one
\* afterwards, each on its own.
SafeCompactTranslate ==
    /\ pc = "sc_active"
    /\ \/ LET active == getActiveMessages(dbMessages, session)
          IN  IF InvalidBoundary(result[1].boundaryIndex, active)
              THEN /\ err' = "translate"
                   /\ pc' = "sc_error"
                   /\ tx' = tx
              ELSE /\ tx' = CommitArgs(active, result[1])
                   /\ pc' = "tx_event"
                   /\ err' = err
       \/ /\ err' = "activeMessages"
          /\ pc' = "sc_error"
          /\ tx' = tx
    /\ UNCHANGED <<exec, dbSessions, run, originalTask, modelCalls, session, dbMessages, dbEvents, messages, config, selection, round, result, ret,
                   newMessages, steps, snap, rounds, commits, observed>>

\* 1. await tx.insert(compactionEvents).values(...)
TxInsertEvent ==
    /\ pc = "tx_event"
    /\ \/ /\ dbEvents' = Append(dbEvents, EventRow(session, tx.metrics, tx.summaryMessage.content))
          /\ pc' = "tx_retire"
          /\ err' = err
       \/ /\ err' = "tx"
          /\ pc' = "tx_failed"
          /\ dbEvents' = dbEvents
    /\ UNCHANGED <<exec, dbSessions, run, originalTask, modelCalls, session, dbMessages, messages, config, selection, round, result, tx, ret,
                   newMessages, steps, snap, rounds, commits, observed>>

\* 2. await tx.update(messages).set({ isCompacted: 1 }).where(...)
TxRetire ==
    /\ pc = "tx_retire"
    /\ \/ /\ dbMessages' = RetireBelow(dbMessages, session, tx.beforeSequence)
          /\ pc' = "tx_lastSeq"
          /\ err' = err
       \/ /\ err' = "tx"
          /\ pc' = "tx_failed"
          /\ dbMessages' = dbMessages
    /\ UNCHANGED <<exec, dbSessions, run, originalTask, modelCalls, session, dbEvents, messages, config, selection, round, result, tx, ret,
                   newMessages, steps, snap, rounds, commits, observed>>

\* 3a. const lastMsg = await tx.select(...).orderBy(desc(sequence)).limit(1)
TxSelectLast ==
    /\ pc = "tx_lastSeq"
    /\ \/ /\ tx' = [tx EXCEPT !.lastSeq = LastSequence(dbMessages, session)]
          /\ pc' = "tx_summary"
          /\ err' = err
       \/ /\ err' = "tx"
          /\ pc' = "tx_failed"
          /\ tx' = tx
    /\ UNCHANGED <<exec, dbSessions, run, originalTask, modelCalls, session, dbMessages, dbEvents, messages, config, selection, round, result, ret,
                   newMessages, steps, snap, rounds, commits, observed>>

\* 3b. await tx.insert(messages).values({ sequence: last + 1, ... })
TxInsertSummary ==
    /\ pc = "tx_summary"
    /\ \/ /\ dbMessages' = Append(dbMessages, SummaryRow(session, tx.lastSeq, tx.summaryMessage))
          /\ commits' = commits + 1
          /\ pc' = "tx_done"
          /\ err' = err
       \/ /\ err' = "tx"
          /\ pc' = "tx_failed"
          /\ UNCHANGED <<exec, dbMessages, commits>>
    /\ UNCHANGED <<exec, dbSessions, run, originalTask, modelCalls, session, dbEvents, messages, config, selection, round, result, tx, ret,
                   newMessages, steps, snap, rounds, observed>>

\* performCompaction resolved: return result.compactedMessages
SafeCompactReturn ==
    /\ pc = "tx_done"
    /\ result # <<>>
    /\ ret' = <<result[1].compactedMessages>>
    /\ pc' = "sc_returned"
    /\ UNCHANGED <<exec, dbSessions, run, originalTask, modelCalls, session, dbMessages, dbEvents, messages, config, selection, round, result, tx,
                   err, newMessages, steps, snap, rounds, commits, observed>>

\* anything thrown inside the try block lands in the catch block
SafeCompactCatch ==
    /\ pc \in {"sc_error", "tx_failed"}
    /\ pc = "tx_failed" => result # <<>>
    /\ ret' = <<CatchValue(messages, result)>>
    /\ pc' = "sc_returned"
    /\ UNCHANGED <<exec, dbSessions, run, originalTask, modelCalls, session, dbMessages, dbEvents, messages, config, selection, round, result, tx,
                   err, newMessages, steps, snap, rounds, commits, observed>>

\* another task of the same process reads the session while performCompaction
\* is suspended at one of its awaits
Observe ==
    /\ pc \in {"tx_event", "tx_retire", "tx_lastSeq", "tx_summary"}
    /\ observed' = <<[active |-> getActiveMessages(dbMessages, session),
                      lastEvent |-> getLastCompactionEvent(dbEvents, session)]>>
    /\ observed' # observed
    /\ UNCHANGED <<exec, dbSessions, run, originalTask, modelCalls, session, dbMessages, dbEvents, pc, messages, config, selection, round, result,
                   tx, err, ret, newMessages, steps, snap, rounds, commits>>

----------------------------------------------------------------------------
(* Agent loop (runAgent) *)

\* DEFAULT_COMPACTION_CONFIG scaled to the size of the texts above
Config(limit, keepLast) ==
    [modelContextLimit |-> limit, systemReserve |-> 2, outputReserve |-> 2,
     safetyBuffer |-> 2, thresholdNum |-> 4, thresholdDen |-> 5,
     recentMessagesToKeep |-> keepLast]

ContextLimits == {16, 21, 26}

\* response.messages of one step: an assistant message with its tool
\* results (the loop goes on) or a final assistant message (the loop ends)
ModelResponses ==
    { <<Msg("assistant", AssistantText), Msg("tool", ToolText)>>,
      <<Msg("assistant", AssistantText)>> }

\* variant: the user task is saved before the system prompt
initializeMessagesTaskFirst(rows, sid, task) ==
    saveMessage(saveMessage(rows, sid, "user", task, estimateTokens(task)),
                sid, "system", SystemPromptText, estimateTokens(SystemPromptText))

initializeMessages(rows, sid, task) ==
    saveMessage(saveMessage(rows, sid, "system", SystemPromptText,
                            estimateTokens(SystemPromptText)),
                sid, "user", task, estimateTokens(task))

\* variant: only the first new message is saved
persistStepMessagesFirstOnly(rows, sid, new) ==
    IF new = <<>> THEN rows
    ELSE saveMessage(rows, sid, Head(new).role, serializeMessageContent(Head(new)),
                     estimateTokens(serializeMessageContent(Head(new))))

RECURSIVE persistStepMessages(_, _, _)
persistStepMessages(rows, sid, new) ==
    IF new = <<>> THEN rows
    ELSE persistStepMessages(
            saveMessage(rows, sid, Head(new).role, serializeMessageContent(Head(new)),
                        estimateTokens(serializeMessageContent(Head(new)))),
            sid, Tail(new))

\* let messages = await loadActiveMessages(sessionId);
\* if (messages.length === 0) messages = await initializeMessages(sessionId, task)
RunAgentStart ==
    /\ pc = "start"
    /\ IF Len(loadActiveMessages(dbMessages, Sid)) = 0
       THEN /\ dbMessages' = initializeMessages(dbMessages, Sid, TaskText)
            /\ messages' = <<Msg("system", SystemPromptText), Msg("user", TaskText)>>
       ELSE /\ messages' = loadActiveMessages(dbMessages, Sid)
            /\ dbMessages' = dbMessages
    /\ pc' = "prepare"
    /\ UNCHANGED <<exec, dbSessions, run, originalTask, modelCalls, session, dbEvents, config, selection, round, result, tx, err, ret,
                   newMessages, steps, snap, rounds, commits, observed>>

\* prepareStep: if (shouldCompact(stepMessages)) safeCompact(...) else go on
PrepareStep ==
    /\ pc = "prepare"
    /\ steps' = steps + 1
    /\ IF shouldCompact(messages, config)
       THEN EnterSafeCompact
       ELSE /\ pc' = "llm"
            /\ UNCHANGED <<exec, selection, round, result, tx, err, ret, snap, observed, originalTask, modelCalls>>
    /\ UNCHANGED <<exec, dbSessions, run, session, dbMessages, dbEvents, messages, config, newMessages, rounds, commits>>

\* return { messages: compacted }: the loop proceeds with the list that
\* safeCompact returned
PrepareStepReturn ==
    /\ pc = "sc_returned"
    /\ messages' = ret[1]
    /\ pc' = "llm"
    /\ UNCHANGED <<exec, dbSessions, run, originalTask, modelCalls, session, dbMessages, dbEvents, config, selection, round, result, tx, err, ret,
                   newMessages, steps, snap, rounds, commits, observed>>

\* the model call of the step: new messages, or an error that ends runAgent
ModelCall ==
    /\ pc = "llm"
    /\ \/ \E response \in ModelResponses :
            /\ newMessages' = response
            /\ pc' = "persist"
       \/ /\ pc' = "failed"
          /\ newMessages' = newMessages
    /\ UNCHANGED <<exec, dbSessions, run, originalTask, modelCalls, session, dbMessages, dbEvents, messages, config, selection, round, result, tx,
                   err, ret, steps, snap, rounds, commits, observed>>

\* onStepFinish: persistStepMessages(sessionId, response.messages); the loop
\* goes on while the step called a tool and the step limit is not reached
OnStepFinish ==
    /\ pc = "persist"
    /\ dbMessages' = persistStepMessages(dbMessages, Sid, newMessages)
    /\ messages' = messages \o newMessages
    /\ newMessages' = <<>>
    /\ pc' = IF newMessages[Len(newMessages)].role = "tool" /\ steps < MaxSteps
             THEN "prepare" ELSE "done"
    /\ UNCHANGED <<exec, dbSessions, run, originalTask, modelCalls, session, dbEvents, config, selection, round, result, tx, err, ret,
                   steps, snap, rounds, commits, observed>>

----------------------------------------------------------------------------
(* A caller of saveMessage and safeCompact *)

InputMessages ==
    { Msg("user", TaskText), Msg("assistant", AssistantText), Msg("tool", ToolText),
      Msg("assistant", MarkerSummary(1)) }

\* the empty list, and lists that begin with the system message
MessageLists ==
    {<<>>} \cup
    UNION { { <<Msg("system", SystemPromptText)>> \o t : t \in [1..n -> InputMessages] }
            : n \in 0..(MaxLen - 1) }

CallSaveMessage ==
    /\ pc = "idle"
    /\ Len(dbMessages) < MaxRows
    /\ dbMessages' = saveMessage(dbMessages, Sid, "user", TaskText, estimateTokens(TaskText))
    /\ UNCHANGED <<exec, dbSessions, run, originalTask, modelCalls, session, dbEvents, pc, messages, config, selection, round, result, tx, err, ret,
                   newMessages, steps, snap, rounds, commits, observed>>

CallSafeCompact ==
    /\ pc = "idle"
    /\ \E msgs \in MessageLists, keepLast \in 0..MaxKeep :
         /\ messages' = msgs
         /\ config' = [config EXCEPT !.recentMessagesToKeep = keepLast]
    /\ EnterSafeCompact
    /\ UNCHANGED <<exec, dbSessions, run, session, dbMessages, dbEvents, newMessages, steps, rounds, commits>>

CallReturn ==
    /\ pc = "sc_returned"
    /\ pc' = "finished"
    /\ UNCHANGED <<exec, dbSessions, run, originalTask, modelCalls, session, dbMessages, dbEvents, messages, config, selection, round, result, tx,
                   err, ret, newMessages, steps, snap, rounds, commits, observed>>

----------------------------------------------------------------------------
(* A caller of the persistence layer, working on two sessions *)

Sessions == {Sid, "s2"}

\* the token counts of the active rows of a session, added up
RECURSIVE SumTokenCounts(_)
SumTokenCounts(rows) ==
    IF rows = <<>> THEN 0 ELSE Head(rows).tokenCount + SumTokenCounts(Tail(rows))

\* arguments of a direct performCompaction(sessionId, beforeSequence,
\* summaryMessage, metrics) call
DirectArgs(sid, beforeSequence, r) ==
    [beforeSequence |-> beforeSequence,
     summaryMessage |-> [role |-> "assistant", content |-> MarkerSummary(r),
                         tokenCount |-> estimateTokens(MarkerSummary(r))],
     metrics |-> [round |-> r,
                  tokensBefore |-> SumTokenCounts(getActiveMessages(dbMessages, sid)),
                  tokensAfter |-> estimateTokens(MarkerSummary(r))],
     lastSeq |-> 0]

DbSaveMessage ==
    /\ pc = "idle"
    /\ Len(dbMessages) < MaxRows
    /\ \E sid \in Sessions :
         /\ session' = sid
         /\ dbMessages' = saveMessage(dbMessages, sid, "user", TaskText,
                                      estimateTokens(TaskText))
    /\ UNCHANGED <<exec, dbSessions, run, originalTask, modelCalls, dbEvents, pc, messages, config, selection, round, result, tx, err, ret,
                   newMessages, steps, snap, rounds, commits, observed>>

\* runAgent called on a session that the caller has written to, or not
DbRunAgent ==
    /\ pc = "idle"
    /\ pc' = "start"
    /\ session' = Sid
    /\ UNCHANGED <<exec, dbSessions, run, originalTask, modelCalls, dbMessages, dbEvents,
                   messages, config, selection, round, result, tx, err, ret,
                   newMessages, steps, snap, rounds, commits, observed>>

DbMarkMessagesCompacted ==
    /\ pc = "idle"
    /\ \E sid \in Sessions :
         \E beforeSequence \in 1..(LastSequence(dbMessages, sid) + 1) :
            /\ session' = sid
            /\ dbMessages' = markMessagesCompacted(dbMessages, sid, beforeSequence)
    /\ UNCHANGED <<exec, dbSessions, run, originalTask, modelCalls, dbEvents, pc, messages, config, selection, round, result, tx, err, ret,
                   newMessages, steps, snap, rounds, commits, observed>>

\* performCompaction called directly, with round 1 or 2 whatever the session
\* holds: the statements are those of TxInsertEvent .. TxInsertSummary
DbPerformCompaction ==
    /\ pc = "idle"
    /\ Len(dbEvents) < MaxCompactions
    /\ \E sid \in Sessions :
         \E beforeSequence \in 1..(LastSequence(dbMessages, sid) + 1),
            r \in 1..2 :
            /\ session' = sid
            /\ tx' = DirectArgs(sid, beforeSequence, r)
    /\ pc' = "tx_event"
    /\ snap' = Persisted
    /\ selection' = NoSelection
    /\ round' = 0
    /\ result' = <<>>
    /\ err' = "none"
    /\ ret' = <<>>
    /\ observed' = <<>>
    /\ modelCalls' = 0
    /\ originalTask' = <<>>
    /\ UNCHANGED <<exec, dbSessions, run, dbMessages, dbEvents, messages, config, newMessages, steps, rounds, commits>>

\* the locals of a call are gone once it has returned
CallEnds ==
    /\ pc' = "idle"
    /\ messages' = <<>>
    /\ selection' = NoSelection
    /\ round' = 0
    /\ result' = <<>>
    /\ tx' = NoTx
    /\ err' = "none"
    /\ ret' = <<>>
    /\ snap' = [messages |-> <<>>, events |-> <<>>]
    /\ observed' = <<>>
    /\ modelCalls' = 0
    /\ originalTask' = <<>>

\* the promise of a direct performCompaction call settles
DbPerformCompactionReturn ==
    /\ pc \in {"tx_done", "tx_failed"}
    /\ result = <<>>
    /\ CallEnds
    /\ UNCHANGED <<exec, dbSessions, run, dbMessages, dbEvents, config, newMessages, steps, rounds, commits, session>>

\* safeCompact(await loadActiveMessages(sessionId), sessionId, model, config)
DbSafeCompact ==
    /\ pc = "idle"
    /\ Len(dbEvents) < MaxCompactions
    /\ Len(rounds) < MaxCompactions
    /\ \E sid \in Sessions :
         /\ session' = sid
         /\ messages' = loadActiveMessages(dbMessages, sid)
    /\ EnterSafeCompact
    /\ UNCHANGED <<exec, dbSessions, run, dbMessages, dbEvents, config, newMessages, steps, rounds, commits>>

DbSafeCompactReturn ==
    /\ pc = "sc_returned"
    /\ CallEnds
    /\ UNCHANGED <<exec, dbSessions, run, dbMessages, dbEvents, config, newMessages, steps, rounds, commits, session>>

----------------------------------------------------------------------------
(* Session lifecycle (runSession) and a caller of updateSessionStatus *)

SessionStatuses == {"active", "completed", "failed"}

\* runSession before its first statement: no container, nothing thrown
NoRun ==
    [containerId |-> <<>>, currentContainerId |-> <<>>, cleanups |-> 0,
     outcome |-> "none", thrown |-> "none", signal |-> "none"]

\* insert into sessions values (id, createdAt, 'active', task)
createSession(rows, id) == Append(rows, [id |-> id, status |-> "active"])

\* variant: the status written is always completed
updateSessionStatusCompleted(rows, id, status) ==
    [i \in 1..Len(rows) |->
        IF rows[i].id = id THEN [rows[i] EXCEPT !.status = "completed"] ELSE rows[i]]

\* update sessions set status = ? where id = ?
updateSessionStatus(rows, id, status) ==
    [i \in 1..Len(rows) |->
        IF rows[i].id = id THEN [rows[i] EXCEPT !.status = status] ELSE rows[i]]

\* variant: the tracked container id is left as it is
FinallyCleanupKeepsTracked(r) ==
    IF r.containerId # <<>> THEN [r EXCEPT !.cleanups = @ + 1] ELSE r

\* finally { if (containerId) { await cleanupContainer(containerId);
\* currentContainerId = null } }; cleanupContainer catches what its docker
\* commands throw and returns
FinallyCleanup(r) ==
    IF r.containerId # <<>>
    THEN [r EXCEPT !.cleanups = @ + 1, !.currentContainerId = <<>>]
    ELSE r

\* 1. const session = await createSession(task), outside the try block
RunSessionCreate ==
    /\ pc = "rs_start"
    /\ \/ /\ dbSessions' = createSession(dbSessions, session)
          /\ pc' = "rs_container"
          /\ run' = run
       \/ /\ pc' = "rs_end"
          /\ dbSessions' = dbSessions
          /\ run' = [run EXCEPT !.thrown = "original"]
    /\ UNCHANGED <<exec, dbMessages, dbEvents, messages, config, selection, round, result, tx,
                   err, ret, newMessages, steps, snap, rounds, commits, observed, session,
                   originalTask, modelCalls>>

\* 2. containerId = await startContainer(session.id); currentContainerId =
\* containerId; or startContainer throws
RunSessionStartContainer ==
    /\ pc = "rs_container"
    /\ \/ /\ pc' = "start"
          /\ run' = [run EXCEPT !.containerId = <<"c1">>,
                                !.currentContainerId = <<"c1">>]
       \/ /\ pc' = "rs_catch"
          /\ run' = [run EXCEPT !.outcome = "startThrew", !.thrown = "original"]
    /\ dbSessions' = dbSessions
    /\ UNCHANGED <<exec, dbMessages, dbEvents, messages, config, selection, round, result, tx,
                   err, ret, newMessages, steps, snap, rounds, commits, observed, session,
                   originalTask, modelCalls>>

\* 4. runAgentWithErrorHandling returned: await updateSessionStatus(id,
\* "completed"), which may throw into the catch block
RunSessionCompleted ==
    /\ pc = "done"
    /\ \/ /\ dbSessions' = updateSessionStatus(dbSessions, session, "completed")
          /\ pc' = "rs_finally"
          /\ run' = [run EXCEPT !.outcome = "agentReturned"]
       \/ /\ pc' = "rs_catch"
          /\ dbSessions' = dbSessions
          /\ run' = [run EXCEPT !.outcome = "agentReturned", !.thrown = "completedUpdate"]
    /\ UNCHANGED <<exec, dbMessages, dbEvents, messages, config, selection, round, result, tx,
                   err, ret, newMessages, steps, snap, rounds, commits, observed, session,
                   originalTask, modelCalls>>

\* runAgent threw: the catch block of runAgentWithErrorHandling awaits
\* getActiveMessages for its log line and rethrows the error, unless that
\* read throws first
RunSessionAgentThrew ==
    /\ pc = "failed"
    /\ pc' = "rs_catch"
    /\ \E thrown \in {"original", "logging"} :
         run' = [run EXCEPT !.outcome = "agentThrew", !.thrown = thrown]
    /\ dbSessions' = dbSessions
    /\ UNCHANGED <<exec, dbMessages, dbEvents, messages, config, selection, round, result, tx,
                   err, ret, newMessages, steps, snap, rounds, commits, observed, session,
                   originalTask, modelCalls>>

\* catch (error) { await updateSessionStatus(session.id, "failed"); throw error; }
RunSessionCatch ==
    /\ pc = "rs_catch"
    /\ \/ /\ dbSessions' = updateSessionStatus(dbSessions, session, "failed")
          /\ run' = run
       \/ /\ dbSessions' = dbSessions
          /\ run' = [run EXCEPT !.thrown = "failedUpdate"]
    /\ pc' = "rs_finally"
    /\ UNCHANGED <<exec, dbMessages, dbEvents, messages, config, selection, round, result, tx,
                   err, ret, newMessages, steps, snap, rounds, commits, observed, session,
                   originalTask, modelCalls>>

\* finally: cleanup of the container if one was started; runSession then
\* returns the result or throws
RunSessionFinally ==
    /\ pc = "rs_finally"
    /\ pc' = "rs_end"
    /\ run' = FinallyCleanup(run)
    /\ dbSessions' = dbSessions
    /\ UNCHANGED <<exec, dbMessages, dbEvents, messages, config, selection, round, result, tx,
                   err, ret, newMessages, steps, snap, rounds, commits, observed, session,
                   originalTask, modelCalls>>

\* SIGINT or SIGTERM arrives: the handler calls cleanupContainer for the
\* tracked container and awaits it, while runSession goes on; without a
\* tracked container it calls process.exit(0) at once
ShutdownSignal ==
    /\ run.signal = "none"
    /\ pc # "exited"
    /\ IF run.currentContainerId # <<>>
       THEN /\ run' = [run EXCEPT !.signal = "cleaning", !.cleanups = @ + 1]
            /\ pc' = pc
       ELSE /\ run' = [run EXCEPT !.signal = "exited"]
            /\ pc' = "exited"
    /\ UNCHANGED <<exec, dbSessions, dbMessages, dbEvents, messages, config, selection, round,
                   result, tx, err, ret, newMessages, steps, snap, rounds, commits,
                   observed, session, originalTask, modelCalls>>

\* the cleanup of the handler has settled: process.exit(0)
ShutdownExit ==
    /\ run.signal = "cleaning"
    /\ pc # "exited"
    /\ run' = [run EXCEPT !.signal = "exited"]
    /\ pc' = "exited"
    /\ UNCHANGED <<exec, dbSessions, dbMessages, dbEvents, messages, config, selection, round,
                   result, tx, err, ret, newMessages, steps, snap, rounds, commits,
                   observed, session, originalTask, modelCalls>>

\* main: runSession returned or threw, process.exit(0) or process.exit(1)
MainExit ==
    /\ pc = "rs_end"
    /\ pc' = "exited"
    /\ run' = run
    /\ UNCHANGED <<exec, dbSessions, dbMessages, dbEvents, messages, config, selection, round,
                   result, tx, err, ret, newMessages, steps, snap, rounds, commits,
                   observed, session, originalTask, modelCalls>>

\* updateSessionStatus called on its own, with any status of its parameter type
CallUpdateSessionStatus ==
    /\ pc = "rs_end"
    /\ \E status \in SessionStatuses :
         dbSessions' = updateSessionStatus(dbSessions, session, status)
    /\ UNCHANGED <<exec, dbMessages, dbEvents, pc, messages, config, selection, round, result, tx,
                   err, ret, newMessages, steps, snap, rounds, commits, observed, session,
                   originalTask, modelCalls, run>>

----------------------------------------------------------------------------
(* The agent tools and execInContainer *)

AgentTools == {"execute_command", "read_file", "write_file", "list_directory"}

NoExec ==
    [pc |-> "idle", tool |-> "none", proc |-> "none", killed |-> FALSE,
     timer |-> "none", timedOut |-> FALSE, exitCode |-> 0, stdout |-> <<>>,
     stderr |-> <<>>, settled |-> <<>>, returned |-> <<>>]

\* the exit codes and outputs of a command that the model explores
Commands == [exitCode : {0, 1, 2}, stdout : {<<>>, <<"o">>}, stderr : {<<>>, <<"e">>}]

NumberText(n) == IF n = 0 THEN <<"0">> ELSE <<Digits[n]>>

\* the literal texts of execInContainer, formatToolResult and the tools:
\* the truncation marker, `Command timed out after ${timeoutMs}ms` with the
\* default of 60_000, `Command failed: ${error}` for an error whose text is
\* 'E', the message of what Bun.spawn throws, the pieces of the formatted
\* result and of the tools' error texts, and the path given to a file tool
ToolTexts ==
    [truncated |->
       <<"\n", "[", ".", ".", ".", "t", "r", "u", "n", "c", "a", "t",
         "e", "d", " ", "a", "t", " ", "1", "0", "0", "0", "0", " ",
         "c", "h", "a", "r", "s", ".", ".", ".", "]">>,
     timeout |->
       <<"C", "o", "m", "m", "a", "n", "d", " ", "t", "i", "m", "e",
         "d", " ", "o", "u", "t", " ", "a", "f", "t", "e", "r", " ",
         "6", "0", "0", "0", "0", "m", "s">>,
     execFailed |->
       <<"C", "o", "m", "m", "a", "n", "d", " ", "f", "a", "i", "l",
         "e", "d", ":", " ", "E">>,
     spawn |->
       <<"s", "p", "a", "w", "n">>,
     stderrHeading |->
       <<"[", "s", "t", "d", "e", "r", "r", "]", "\n">>,
     exitCodeOpen |->
       <<"\n", "[", "e", "x", "i", "t", " ", "c", "o", "d", "e", ":",
         " ">>,
     errorOpen |->
       <<"[", "E", "r", "r", "o", "r", "]", " ">>,
     unknownError |->
       <<"U", "n", "k", "n", "o", "w", "n", " ", "e", "r", "r", "o",
         "r">>,
     errorReading |->
       <<"E", "r", "r", "o", "r", " ", "r", "e", "a", "d", "i", "n",
         "g", " ", "f", "i", "l", "e", ":", " ">>,
     fileNotFound |->
       <<"F", "i", "l", "e", " ", "n", "o", "t", " ", "f", "o", "u",
         "n", "d">>,
     errorWriting |->
       <<"E", "r", "r", "o", "r", " ", "w", "r", "i", "t", "i", "n",
         "g", " ", "f", "i", "l", "e", ":", " ">>,
     errorListing |->
       <<"E", "r", "r", "o", "r", " ", "l", "i", "s", "t", "i", "n",
         "g", " ", "d", "i", "r", "e", "c", "t", "o", "r", "y", ":",
         " ">>,
     fileWritten |->
       <<"F", "i", "l", "e", " ", "w", "r", "i", "t", "t", "e", "n",
         ":", " ">>,
     path |->
       <<"a">>]

truncateOutput(output, maxLength) ==
    IF Len(output) <= maxLength
    THEN output
    ELSE SubSeq(output, 1, maxLength) \o ToolTexts.truncated

\* new DockerError(message, code); an Error of another class has code "none"
DockerError(message, code) == [class |-> "DockerError", message |-> message, code |-> code]

Returned(stdout, stderr, exitCode) ==
    [kind |-> "result", stdout |-> stdout, stderr |-> stderr, exitCode |-> exitCode]
Thrown(error) == [kind |-> "error", error |-> error]

formatToolResult(execResult) ==
    LET withStdout == IF execResult.stdout # <<>> THEN execResult.stdout ELSE <<>>
        withStderr ==
            IF execResult.stderr # <<>>
            THEN withStdout \o (IF withStdout # <<>> THEN <<"\n">> ELSE <<>>)
                     \o ToolTexts.stderrHeading \o execResult.stderr
            ELSE withStdout
    IN  withStderr \o ToolTexts.exitCodeOpen \o NumberText(execResult.exitCode) \o <<"]">>

\* variant: the message of the error is dropped
ToolCatchUnknown(error) == ToolTexts.errorOpen \o ToolTexts.unknownError

\* catch (error) { return `[Error] ${error instanceof Error ? error.message :
\* "Unknown error"}` }
ToolCatch(error) ==
    ToolTexts.errorOpen \o (IF error.class \in {"DockerError", "Error"} THEN error.message
                  ELSE ToolTexts.unknownError)

\* what execute returns once the container operation has settled
ToolExecuteResult(tool, path, settled) ==
    IF settled.kind = "error" THEN ToolCatch(settled.error)
    ELSE CASE tool = "execute_command" -> formatToolResult(settled)
           [] tool = "read_file" ->
                IF settled.exitCode # 0
                THEN ToolTexts.errorReading \o (IF settled.stderr # <<>> THEN settled.stderr
                                      ELSE ToolTexts.fileNotFound)
                ELSE settled.stdout
           [] tool = "write_file" ->
                IF settled.exitCode # 0
                THEN ToolTexts.errorWriting \o settled.stderr
                ELSE ToolTexts.fileWritten \o path
           [] tool = "list_directory" ->
                IF settled.exitCode # 0
                THEN ToolTexts.errorListing \o settled.stderr
                ELSE settled.stdout

\* execute of a tool calls execInContainer: Bun.spawn starts docker exec and
\* setTimeout arms the timer, or Bun.spawn throws
ToolExecute ==
    /\ exec.pc = "idle"
    /\ \E tool \in AgentTools :
         \/ exec' = [exec EXCEPT !.pc = "awaiting", !.tool = tool,
                                 !.proc = "running", !.timer = "armed"]
         \/ exec' = [exec EXCEPT !.pc = "settled", !.tool = tool,
                                 !.settled = <<Thrown([class |-> "Error", message |-> ToolTexts.spawn,
                                                     code |-> "none"])>>]
    /\ UNCHANGED <<dbSessions, dbMessages, dbEvents, pc, messages, config, selection, round,
                   result, tx, err, ret, newMessages, steps, snap, rounds, commits,
                   observed, session, originalTask, modelCalls, run>>

\* the command ends on its own; the event loop has not yet run the
\* continuation of await proc.exited
ProcessExits ==
    /\ exec.pc = "awaiting"
    /\ exec.proc = "running"
    /\ \E c \in Commands :
         exec' = [exec EXCEPT !.proc = "exited", !.exitCode = c.exitCode,
                              !.stdout = c.stdout, !.stderr = c.stderr]
    /\ UNCHANGED <<dbSessions, dbMessages, dbEvents, pc, messages, config, selection, round,
                   result, tx, err, ret, newMessages, steps, snap, rounds, commits,
                   observed, session, originalTask, modelCalls, run>>

\* the setTimeout callback: timedOut = true; proc.kill(), which ends a
\* command that is still running and does nothing to one that has ended
TimeoutCallback ==
    /\ exec.pc = "awaiting"
    /\ exec.timer = "armed"
    /\ IF exec.proc = "running"
       THEN \E c \in {k \in Commands : k.exitCode # 0} :
              exec' = [exec EXCEPT !.timer = "fired", !.timedOut = TRUE,
                                   !.proc = "exited", !.killed = TRUE,
                                   !.exitCode = c.exitCode, !.stdout = c.stdout,
                                   !.stderr = c.stderr]
       ELSE exec' = [exec EXCEPT !.timer = "fired", !.timedOut = TRUE]
    /\ UNCHANGED <<dbSessions, dbMessages, dbEvents, pc, messages, config, selection, round,
                   result, tx, err, ret, newMessages, steps, snap, rounds, commits,
                   observed, session, originalTask, modelCalls, run>>

\* the continuation of await proc.exited: clearTimeout, then the timedOut
\* test, then the two stream reads, either of which may reject
ProcessExitedResolves ==
    /\ exec.pc = "awaiting"
    /\ exec.proc = "exited"
    /\ LET cleared == IF exec.timer = "armed" THEN "cleared" ELSE exec.timer
       IN  IF exec.timedOut
           THEN exec' = [exec EXCEPT !.pc = "settled", !.timer = cleared,
                           !.settled = <<Thrown(DockerError(ToolTexts.timeout, "COMMAND_TIMEOUT"))>>]
           ELSE \/ exec' = [exec EXCEPT !.pc = "settled", !.timer = cleared,
                              !.settled = <<Returned(truncateOutput(exec.stdout, 10000),
                                                     truncateOutput(exec.stderr, 10000),
                                                     exec.exitCode)>>]
                \/ exec' = [exec EXCEPT !.pc = "settled", !.timer = cleared,
                              !.settled = <<Thrown(DockerError(ToolTexts.execFailed, "EXEC_FAILED"))>>]
    /\ UNCHANGED <<dbSessions, dbMessages, dbEvents, pc, messages, config, selection, round,
                   result, tx, err, ret, newMessages, steps, snap, rounds, commits,
                   observed, session, originalTask, modelCalls, run>>

\* execute returns to the agent loop
ToolReturn ==
    /\ exec.pc = "settled"
    /\ exec' = [exec EXCEPT !.pc = "returned",
                            !.returned = <<ToolExecuteResult(exec.tool, ToolTexts.path, exec.settled[1])>>]
    /\ UNCHANGED <<dbSessions, dbMessages, dbEvents, pc, messages, config, selection, round,
                   result, tx, err, ret, newMessages, steps, snap, rounds, commits,
                   observed, session, originalTask, modelCalls, run>>

----------------------------------------------------------------------------
(* A caller that stores messages, loads them back and lengthens one text *)

\* plain texts, some of which begin with the prefix of structured content
PrefixedTexts ==
    { CONTENT_JSON_PREFIX,
      CONTENT_JSON_PREFIX \o <<"a">>,
      CONTENT_JSON_PREFIX \o JSONString(<<"a">>),
      CONTENT_JSON_PREFIX \o <<"[", "]">> }

ContentValues ==
    {Str(t) : t \in {<<>>} \cup PartTexts \cup PrefixedTexts}
    \cup {Parts(ps) : ps \in PartLists}

\* the lists the caller stores: one message, or one message and a reply
ContentLists ==
    {<<[role |-> "user", content |-> c]>> : c \in ContentValues}
    \cup {<<[role |-> "user", content |-> c], Msg("assistant", AssistantText)>> :
             c \in ContentValues}

\* n copies of the character c
RECURSIVE Repeat(_, _)
Repeat(c, n) == IF n = 0 THEN <<>> ELSE <<c>> \o Repeat(c, n - 1)

\* the texts an edit can lengthen in a content: the string itself (k = 0),
\* or one field of one part
EditPoints(content) ==
    IF content.type = "string" THEN {<<0, "text">>}
    ELSE {pt \in (1..Len(content.parts)) \X {"text", "toolName", "input", "output"} :
             pt[2] \in DOMAIN content.parts[pt[1]]}

\* the content with the text at an edit point followed by ext
Lengthen(content, point, ext) ==
    IF content.type = "string" THEN Str(content.text \o ext)
    ELSE Parts([content.parts EXCEPT
                    ![point[1]] = [@ EXCEPT ![point[2]] = @ \o ext]])

\* persistStepMessages on a fresh session
ContentPersist ==
    /\ pc = "ct_start"
    /\ dbMessages' = persistStepMessages(dbMessages, session, newMessages)
    /\ pc' = "ct_saved"
    /\ UNCHANGED <<exec, dbEvents, messages, config, selection, round, result, tx, err, ret,
                   newMessages, steps, snap, rounds, commits, observed, session,
                   dbSessions, run, originalTask, modelCalls>>

\* loadActiveMessages
ContentLoad ==
    /\ pc = "ct_saved"
    /\ messages' = loadActiveMessages(dbMessages, session)
    /\ pc' = "ct_loaded"
    /\ UNCHANGED <<exec, dbMessages, dbEvents, config, selection, round, result, tx, err, ret,
                   newMessages, steps, snap, rounds, commits, observed, session,
                   dbSessions, run, originalTask, modelCalls>>

\* one edit that lengthens one text of the first message; ret holds the
\* edited list, messages keeps the list before the edit
ContentLengthen ==
    /\ pc = "ct_loaded"
    /\ \E point \in EditPoints(messages[1].content), c \in {"a", Quote}, n \in 1..MaxGrow :
         ret' = <<[messages EXCEPT
                     ![1].content = Lengthen(messages[1].content, point, Repeat(c, n))]>>
    /\ pc' = "ct_edited"
    /\ UNCHANGED <<exec, dbMessages, dbEvents, messages, config, selection, round, result, tx,
                   err, newMessages, steps, snap, rounds, commits, observed, session,
                   dbSessions, run, originalTask, modelCalls>>

----------------------------------------------------------------------------
(* Two writers to one session: saveMessage and performCompaction, each      *)
(* suspended at its awaits; pc and tx hold one entry per writer            *)

Writers == {"w1", "w2"}

NoWrite == [beforeSequence |-> 0, lastSeq |-> 0]

\* variant: the row takes the sequence that was read
MessageRowSameSequence(sid, lastSeq, role, content, tokenCount) ==
    [sessionId |-> sid, sequence |-> lastSeq, role |-> role,
     content |-> content, tokenCount |-> tokenCount, isCompacted |-> 0]

\* the values saveMessage inserts: sequence = (lastMsg[0]?.seq ?? 0) + 1
MessageRow(sid, lastSeq, role, content, tokenCount) ==
    [sessionId |-> sid, sequence |-> lastSeq + 1, role |-> role,
     content |-> content, tokenCount |-> tokenCount, isCompacted |-> 0]

\* the summary message and the metrics a writer passes to performCompaction
WriterArgs ==
    [summaryMessage |-> [role |-> "assistant", content |-> MarkerSummary(1),
                         tokenCount |-> estimateTokens(MarkerSummary(1))],
     metrics |-> [round |-> 1,
                  tokensBefore |-> SumTokenCounts(getActiveMessages(dbMessages, session)),
                  tokensAfter |-> estimateTokens(MarkerSummary(1))]]

\* writers that will still insert a message row
InsertsPending ==
    Cardinality({w \in Writers : pc[w] \in {"sm_insert", "tx_retire", "tx_lastSeq", "tx_summary"}})

\* saveMessage: await select ... order by sequence desc limit 1
WriterSaveRead(w) ==
    /\ pc[w] = "idle"
    /\ Len(dbMessages) + InsertsPending < MaxRows
    /\ tx' = [tx EXCEPT ![w].lastSeq = LastSequence(dbMessages, session)]
    /\ pc' = [pc EXCEPT ![w] = "sm_insert"]
    /\ UNCHANGED <<exec, dbMessages, dbEvents>>
    /\ UNCHANGED <<exec, dbSessions, run, originalTask, modelCalls, messages, config, selection, round,
                   result, err, ret, newMessages, steps, snap, rounds, commits, observed,
                   session>>

\* saveMessage: await insert(messages).values({ sequence, ... }), which
\* resolves or rejects
WriterSaveInsert(w) ==
    /\ pc[w] = "sm_insert"
    /\ \/ dbMessages' = Append(dbMessages,
                                MessageRow(session, tx[w].lastSeq, "user", TaskText,
                                           estimateTokens(TaskText)))
       \/ dbMessages' = dbMessages
    /\ pc' = [pc EXCEPT ![w] = "idle"]
    /\ tx' = [tx EXCEPT ![w] = NoWrite]
    /\ UNCHANGED dbEvents
    /\ UNCHANGED <<exec, dbSessions, run, originalTask, modelCalls, messages, config, selection, round,
                   result, err, ret, newMessages, steps, snap, rounds, commits, observed,
                   session>>

\* performCompaction, statement 1: insert the compaction event
WriterInsertEvent(w) ==
    /\ pc[w] = "idle"
    /\ Len(dbEvents) < MaxCompactions
    /\ Len(dbMessages) + InsertsPending < MaxRows
    /\ \E beforeSequence \in 1..(LastSequence(dbMessages, session) + 1) :
         tx' = [tx EXCEPT ![w] = [beforeSequence |-> beforeSequence, lastSeq |-> 0]]
    /\ dbEvents' = Append(dbEvents, EventRow(session, WriterArgs.metrics, WriterArgs.summaryMessage.content))
    /\ pc' = [pc EXCEPT ![w] = "tx_retire"]
    /\ UNCHANGED dbMessages
    /\ UNCHANGED <<exec, dbSessions, run, originalTask, modelCalls, messages, config, selection, round,
                   result, err, ret, newMessages, steps, snap, rounds, commits, observed,
                   session>>

\* statement 2: retire the rows below the boundary sequence
WriterRetire(w) ==
    /\ pc[w] = "tx_retire"
    /\ \/ /\ dbMessages' = RetireBelow(dbMessages, session, tx[w].beforeSequence)
          /\ pc' = [pc EXCEPT ![w] = "tx_lastSeq"]
          /\ tx' = tx
       \/ /\ dbMessages' = dbMessages
          /\ pc' = [pc EXCEPT ![w] = "idle"]
          /\ tx' = [tx EXCEPT ![w] = NoWrite]
    /\ UNCHANGED dbEvents
    /\ UNCHANGED <<exec, dbSessions, run, originalTask, modelCalls, messages, config, selection, round,
                   result, err, ret, newMessages, steps, snap, rounds, commits, observed,
                   session>>

\* statement 3a: read the last sequence of the session
WriterSelectLast(w) ==
    /\ pc[w] = "tx_lastSeq"
    /\ \/ /\ tx' = [tx EXCEPT ![w].lastSeq = LastSequence(dbMessages, session)]
          /\ pc' = [pc EXCEPT ![w] = "tx_summary"]
       \/ /\ pc' = [pc EXCEPT ![w] = "idle"]
          /\ tx' = [tx EXCEPT ![w] = NoWrite]
    /\ UNCHANGED <<exec, dbMessages, dbEvents>>
    /\ UNCHANGED <<exec, dbSessions, run, originalTask, modelCalls, messages, config, selection, round,
                   result, err, ret, newMessages, steps, snap, rounds, commits, observed,
                   session>>

\* statement 3b: insert the summary row with the sequence read + 1
WriterInsertSummary(w) ==
    /\ pc[w] = "tx_summary"
    /\ \/ dbMessages' = Append(dbMessages, SummaryRow(session, tx[w].lastSeq, WriterArgs.summaryMessage))
       \/ dbMessages' = dbMessages
    /\ pc' = [pc EXCEPT ![w] = "idle"]
    /\ tx' = [tx EXCEPT ![w] = NoWrite]
    /\ UNCHANGED dbEvents
    /\ UNCHANGED <<exec, dbSessions, run, originalTask, modelCalls, messages, config, selection, round,
                   result, err, ret, newMessages, steps, snap, rounds, commits, observed,
                   session>>

----------------------------------------------------------------------------
(* Specifications *)

InitCommon ==
    /\ dbMessages = <<>>
    /\ dbEvents = <<>>
    /\ messages = <<>>
    /\ selection = NoSelection
    /\ round = 0
    /\ result = <<>>
    /\ tx = NoTx
    /\ err = "none"
    /\ ret = <<>>
    /\ newMessages = <<>>
    /\ steps = 0
    /\ snap = [messages |-> <<>>, events |-> <<>>]
    /\ rounds = <<>>
    /\ commits = 0
    /\ observed = <<>>
    /\ session = Sid
    /\ dbSessions = <<>>
    /\ run = NoRun
    /\ exec = NoExec
    /\ modelCalls = 0
    /\ originalTask = <<>>

Init ==
    /\ InitCommon
    /\ pc = "start"
    /\ config \in {Config(limit, keepLast) : limit \in ContextLimits, keepLast \in 1..MaxKeep}

Next ==
    \/ RunAgentStart
    \/ PrepareStep
    \/ CompactSelect
    \/ CompactLastEvent
    \/ CompactGenerate
    \/ SafeCompactTranslate
    \/ TxInsertEvent
    \/ TxRetire
    \/ TxSelectLast
    \/ TxInsertSummary
    \/ SafeCompactReturn
    \/ SafeCompactCatch
    \/ PrepareStepReturn
    \/ ModelCall
    \/ OnStepFinish
    \/ Observe

Spec == Init /\ [][Next]_vars

\* every await of the loop settles: a step that can be taken is taken
SpecLive == Spec /\ WF_vars(Next)

InitSafe ==
    /\ InitCommon
    /\ pc = "idle"
    /\ config = Config(16, 1)

NextSafe ==
    \/ CallSaveMessage
    \/ CallSafeCompact
    \/ CompactSelect
    \/ CompactLastEvent
    \/ CompactGenerate
    \/ SafeCompactTranslate
    \/ TxInsertEvent
    \/ TxRetire
    \/ TxSelectLast
    \/ TxInsertSummary
    \/ SafeCompactReturn
    \/ SafeCompactCatch
    \/ CallReturn
    \/ Observe

SpecSafe == InitSafe /\ [][NextSafe]_vars

InitDb ==
    /\ InitCommon
    /\ pc = "idle"
    /\ config = Config(16, 1)

NextDb ==
    \/ DbSaveMessage
    \/ DbMarkMessagesCompacted
    \/ DbPerformCompaction
    \/ DbPerformCompactionReturn
    \/ DbSafeCompact
    \/ DbSafeCompactReturn
    \/ CompactSelect
    \/ CompactLastEvent
    \/ CompactGenerate
    \/ SafeCompactTranslate
    \/ TxInsertEvent
    \/ TxRetire
    \/ TxSelectLast
    \/ TxInsertSummary
    \/ SafeCompactReturn
    \/ SafeCompactCatch

SpecDb == InitDb /\ [][NextDb]_vars

InitSession ==
    /\ InitCommon
    /\ pc = "rs_start"
    /\ config \in {Config(limit, keepLast) : limit \in ContextLimits, keepLast \in 1..MaxKeep}

NextSession ==
    \/ RunSessionCreate
    \/ RunSessionStartContainer
    \/ Next
    \/ RunSessionCompleted
    \/ RunSessionAgentThrew
    \/ RunSessionCatch
    \/ RunSessionFinally
    \/ CallUpdateSessionStatus

SpecSession == InitSession /\ [][NextSession]_vars

NextShutdown ==
    \/ RunSessionCreate
    \/ RunSessionStartContainer
    \/ Next
    \/ RunSessionCompleted
    \/ RunSessionAgentThrew
    \/ RunSessionCatch
    \/ RunSessionFinally
    \/ ShutdownSignal
    \/ ShutdownExit
    \/ MainExit

SpecShutdown == InitSession /\ [][NextShutdown]_vars

NextResume ==
    \/ DbSaveMessage
    \/ DbMarkMessagesCompacted
    \/ DbRunAgent
    \/ RunAgentStart

SpecResume == InitDb /\ [][NextResume]_vars

InitTools ==
    /\ InitCommon
    /\ pc = "tool"
    /\ config = Config(16, 1)

NextTools ==
    \/ ToolExecute
    \/ ProcessExits
    \/ TimeoutCallback
    \/ ProcessExitedResolves
    \/ ToolReturn

SpecTools == InitTools /\ [][NextTools]_vars

\* every await of runSession and of the loop settles
SpecSessionLive == SpecSession /\ WF_vars(NextSession)

InitWriters ==
    /\ dbMessages = <<>>
    /\ dbEvents = <<>>
    /\ messages = <<>>
    /\ selection = NoSelection
    /\ round = 0
    /\ result = <<>>
    /\ tx = [w \in Writers |-> NoWrite]
    /\ err = "none"
    /\ ret = <<>>
    /\ newMessages = <<>>
    /\ steps = 0
    /\ snap = [messages |-> <<>>, events |-> <<>>]
    /\ rounds = <<>>
    /\ commits = 0
    /\ observed = <<>>
    /\ session = Sid
    /\ dbSessions = <<>>
    /\ run = NoRun
    /\ exec = NoExec
    /\ modelCalls = 0
    /\ originalTask = <<>>
    /\ pc = [w \in Writers |-> "idle"]
    /\ config = Config(16, 1)

NextWriters ==
    \E w \in Writers :
        \/ WriterSaveRead(w)
        \/ WriterSaveInsert(w)
        \/ WriterInsertEvent(w)
        \/ WriterRetire(w)
        \/ WriterSelectLast(w)
        \/ WriterInsertSummary(w)

SpecWriters == InitWriters /\ [][NextWriters]_vars

InitContent ==
    /\ dbMessages = <<>>
    /\ dbEvents = <<>>
    /\ messages = <<>>
    /\ selection = NoSelection
    /\ round = 0
    /\ result = <<>>
    /\ tx = NoTx
    /\ err = "none"
    /\ ret = <<>>
    /\ newMessages \in ContentLists
    /\ steps = 0
    /\ snap = [messages |-> <<>>, events |-> <<>>]
    /\ rounds = <<>>
    /\ commits = 0
    /\ observed = <<>>
    /\ session = Sid
    /\ dbSessions = <<>>
    /\ run = NoRun
    /\ exec = NoExec
    /\ modelCalls = 0
    /\ originalTask = <<>>
    /\ pc = "ct_start"
    /\ config = Config(16, 1)

NextContent ==
    \/ ContentPersist
    \/ ContentLoad
    \/ ContentLengthen

SpecContent == InitContent /\ [][NextContent]_vars

----------------------------------------------------------------------------
(* Properties *)

\* what getActiveMessages and getLastCompactionEvent return on a persisted state
ReadsOf(p) == [active |-> getActiveMessages(p.messages, Sid),
               lastEvent |-> getLastCompactionEvent(p.events, Sid)]

\* the persisted state p with the three effects of performCompaction applied
WholeCommit(p, args) ==
    [messages |-> Append(RetireBelow(p.messages, Sid, args.beforeSequence),
                         SummaryRow(Sid, LastSequence(p.messages, Sid), args.summaryMessage)),
     events |-> Append(p.events, EventRow(Sid, args.metrics, args.summaryMessage.content))]

LastN(s, n) == SubSeq(s, Len(s) - n + 1, Len(s))

\* C1: when performCompaction fails after its first write, the persisted
\* state equals the state before the call (no event, no retirement, no summary).
C1_AllOrNothing == pc = "tx_failed" => Persisted = snap

\* C2: a reader that interleaves with performCompaction sees either none of
\* its three effects or all of them.
C2_NoPartialCommit ==
    observed # <<>> =>
        \/ observed[1] = ReadsOf(snap)
        \/ observed[1] = ReadsOf(WholeCommit(snap, tx))

\* C3: in a session driven by the agent loop the persisted message with
\* sequence 1 (the system prompt) is never retired.
C3_SystemPromptActive ==
    \A i \in 1..Len(dbMessages) :
        dbMessages[i].sequence = 1 => dbMessages[i].isCompacted = 0

\* C4: when generateSummary fails or the boundary index cannot be translated,
\* safeCompact has no persistent effect and returns the input list unchanged.
C4_AbandonedAttempt ==
    err \in {"generate", "translate"} =>
        /\ Persisted = snap
        /\ pc \in {"sc_returned", "finished"} => ret = <<messages>>

C4_Witness ==
    /\ pc = "sc_returned"
    /\ err = "translate"
    /\ result # <<>>
    /\ result[1].compactedMessages # messages
    /\ ret = <<messages>>
    /\ Len(dbMessages) > 0

\* C5: safeCompact always returns a list, the input list or the compacted
\* one, and the compacted one only when performCompaction went through: the
\* event and the active summary message of that round are then persisted.
C5_ReturnsValidList ==
    pc \in {"sc_returned", "finished"} =>
        /\ Len(ret) = 1
        /\ \/ ret[1] = messages
           \/ /\ result # <<>>
              /\ err = "none"
              /\ ret[1] = result[1].compactedMessages
              /\ \E i \in 1..Len(dbEvents) :
                    /\ dbEvents[i].round = result[1].round
                    /\ dbEvents[i].summaryContent = result[1].summaryContent
              /\ \E i \in 1..Len(dbMessages) :
                    /\ dbMessages[i].role = "assistant"
                    /\ dbMessages[i].content = result[1].summaryContent
                    /\ dbMessages[i].isCompacted = 0

C5_Witness ==
    /\ pc = "sc_returned"
    /\ err = "none"
    /\ result # <<>>
    /\ result[1].round > 0
    /\ ret = <<result[1].compactedMessages>>
    /\ ret[1] # messages

\* C6: whenever safeCompact translates the boundary index, the persisted
\* active list equals the in-memory list, message by message.
C6_ListsAgree ==
    pc = "sc_active" => loadActiveMessages(dbMessages, Sid) = messages

\* C7: the events of a session carry the rounds 1, 2, ..., n, one per
\* successful compaction; a no-op or failed attempt creates none.
C7_RoundsConsecutive ==
    LET own == RowsOf(dbEvents, Sid)
    IN  /\ \A i \in 1..Len(own) : own[i].round = i
        /\ pc \notin {"tx_retire", "tx_lastSeq", "tx_summary"} => Len(own) = commits

LastPersistedRound ==
    LET own == RowsOf(dbEvents, Sid)
    IN  IF own = <<>> THEN 0 ELSE Max({own[i].round : i \in 1..Len(own)})

\* C8 (as stated): the rounds returned by successive compact calls strictly
\* increase and each equals 1 + the round of the most recent persisted event.
C8_RoundsStrictlyIncrease ==
    /\ \A i \in 1..(Len(rounds) - 1) : rounds[i] < rounds[i + 1]
    /\ pc = "sc_active" => result[1].round = 1 + LastPersistedRound

\* C8 (amended): the rounds returned by successive completed compact calls
\* never decrease, and each equals 1 + the round of the most recent persisted
\* event at the time of the call; a round is larger than the one returned
\* before it exactly when the event of that earlier round was persisted.
C8_RoundsFollowEvents ==
    /\ \A i \in 1..(Len(rounds) - 1) : rounds[i] <= rounds[i + 1]
    /\ pc = "sc_active" =>
          /\ result[1].round = 1 + LastPersistedRound
          /\ rounds[Len(rounds)] = result[1].round
          /\ Len(rounds) >= 2 =>
                (rounds[Len(rounds) - 1] < rounds[Len(rounds)]
                    <=> \E i \in 1..Len(dbEvents) :
                            dbEvents[i].round = rounds[Len(rounds) - 1])

C8_Witness ==
    /\ pc = "sc_active"
    /\ Len(rounds) >= 2
    /\ rounds[1] = 1
    /\ rounds[2] = 2
    /\ result[1].round = 2

\* C9: after a committed round whose summary sits at index 1 of the list,
\* the next compaction detects it as the previous summary, leaves it out of
\* messagesToCompact and gets the next round number.
C9_SummariesChain ==
    LET last == getLastCompactionEvent(dbEvents, Sid)
    IN  (/\ pc = "sc_generate"
         /\ last # <<>>
         /\ At(messages, 1) = Msg("assistant", last[1].summaryContent))
        => /\ selection.previousSummary = <<last[1].summaryContent>>
           /\ selection.messagesToCompact = Slice(messages, 2, selection.boundaryIndex)
           /\ round = last[1].round + 1

\* C10: a completed compaction returns a list whose last keepLast messages
\* are the last keepLast messages of the input, in the same order.
C10_KeepTail ==
    (result # <<>> /\ result[1].round > 0) =>
        /\ Len(result[1].compactedMessages) >= config.recentMessagesToKeep
        /\ LastN(result[1].compactedMessages, config.recentMessagesToKeep)
             = LastN(messages, config.recentMessagesToKeep)

C10_Witness ==
    /\ result # <<>>
    /\ result[1].round > 0
    /\ config.recentMessagesToKeep = 2
    /\ Len(messages) = 4
    /\ Len(result[1].compactedMessages) = 4

\* compact has computed the selection of the call in progress
Selected == pc \notin {"idle", "sc_compact"}

\* C11 as stated: whatever the list and the tail size, the message at
\* index 1 of messagesToKeep does not have role tool.
C11_FirstKeptNotTool ==
    (Selected /\ Len(selection.messagesToKeep) >= 2) =>
        At(selection.messagesToKeep, 1).role # "tool"

\* C11: when something is selected for compaction, the message at index 1 of
\* messagesToKeep, if there is one, does not have role tool; when nothing is
\* selected, messagesToKeep is the input list as it is.
C11_FirstKeptNotToolWhenSelected ==
    Selected =>
        IF Len(selection.messagesToCompact) > 0
        THEN Len(selection.messagesToKeep) >= 2 =>
                At(selection.messagesToKeep, 1).role # "tool"
        ELSE selection.messagesToKeep = messages

C11_Witness ==
    /\ Selected
    /\ Len(selection.messagesToCompact) > 0
    /\ Len(selection.messagesToKeep) >= 2
    /\ selection.boundaryIndex < Len(messages) - config.recentMessagesToKeep

\* every tool message of the list follows an assistant message or another
\* tool message
WellPaired(msgs) ==
    \A i \in 1..Len(msgs) :
        msgs[i].role = "tool" => (i > 1 /\ msgs[i - 1].role \in {"assistant", "tool"})

\* C12: if every run of tool messages of the input follows an assistant
\* message, every tool message of messagesToKeep follows, after the system
\* message, the assistant message of its run.
C12_ToolPairingKept ==
    (Selected /\ WellPaired(messages)) =>
        \A i \in 1..Len(selection.messagesToKeep) :
            selection.messagesToKeep[i].role = "tool" =>
                /\ i > 2
                /\ selection.messagesToKeep[i - 1].role \in {"assistant", "tool"}

C12_Witness ==
    /\ Selected
    /\ WellPaired(messages)
    /\ Len(selection.messagesToCompact) > 0
    /\ \E i \in 1..Len(selection.messagesToKeep) : selection.messagesToKeep[i].role = "tool"
    /\ selection.boundaryIndex < Len(messages) - config.recentMessagesToKeep

\* C13: when nothing is selected, compact returns round 0, the list it was
\* given, equal token counts and no summary, the model is not called, and
\* safeCompact returns with the persisted state as it was.
C13_NoOpWritesNothing ==
    (pc \in {"sc_returned", "finished"} /\ Len(selection.messagesToCompact) = 0) =>
        /\ result # <<>>
        /\ result[1].round = 0
        /\ result[1].compactedMessages = messages
        /\ result[1].tokensAfter = result[1].tokensBefore
        /\ result[1].tokensBefore = estimateMessagesTokens(messages)
        /\ result[1].summaryContent = <<>>
        /\ ret = <<messages>>
        /\ rounds = <<>>
        /\ err = "none"
        /\ commits = 0
        /\ Persisted = snap

C13_Witness ==
    /\ pc = "finished"
    /\ Len(selection.messagesToCompact) = 0
    /\ Len(messages) > config.recentMessagesToKeep + 1
    /\ Len(dbMessages) > 0

\* C14: for a list of at most keepLast + 1 messages the selection is empty,
\* messagesToKeep is the input, previousSummary is null, and shouldCompact is
\* false however low the threshold is.
C14_ShortListUntouched ==
    (Selected /\ Len(messages) <= config.recentMessagesToKeep + 1) =>
        /\ selection.messagesToCompact = <<>>
        /\ selection.messagesToKeep = messages
        /\ selection.previousSummary = <<>>
        /\ \A limit \in 6..16 :
              ~shouldCompact(messages, [config EXCEPT !.modelContextLimit = limit])

C14_Witness ==
    /\ pc = "finished"
    /\ Len(messages) = config.recentMessagesToKeep + 1
    /\ Len(messages) >= 2
    /\ estimateMessagesTokens(messages) >= calculateThreshold(config)

\* the message at index 1 is an assistant message whose text begins with the marker
SummaryAtOne(msgs) ==
    /\ Len(msgs) >= 2
    /\ msgs[2].role = "assistant"
    /\ msgs[2].content.type = "string"
    /\ StartsWith(msgs[2].content.text, SummaryMarker)

\* messagesToCompact is empty or the messages from index `start` up to the boundary
CompactsFrom(start) ==
    selection.messagesToCompact # <<>> =>
        selection.messagesToCompact =
            [i \in 1..(selection.boundaryIndex - start) |-> messages[start + i]]

\* C15 as stated: a marker summary at index 1 is always returned as
\* previousSummary and left out of messagesToCompact; otherwise compaction
\* starts at index 1 and previousSummary is null.
C15_PreviousSummaryDetected ==
    Selected =>
        IF SummaryAtOne(messages)
        THEN /\ selection.previousSummary = <<messages[2].content.text>>
             /\ CompactsFrom(2)
        ELSE /\ selection.previousSummary = <<>>
             /\ CompactsFrom(1)

\* C15: in a list of more than keepLast + 1 messages, a marker summary at
\* index 1 is returned as previousSummary and left out of messagesToCompact;
\* in every other case previousSummary is null and compaction starts at index 1.
C15_PreviousSummaryInLongList ==
    Selected =>
        IF SummaryAtOne(messages) /\ Len(messages) > config.recentMessagesToKeep + 1
        THEN /\ selection.previousSummary = <<messages[2].content.text>>
             /\ CompactsFrom(2)
        ELSE /\ selection.previousSummary = <<>>
             /\ CompactsFrom(1)

C15_Witness ==
    /\ Selected
    /\ SummaryAtOne(messages)
    /\ Len(selection.messagesToCompact) > 0
    /\ selection.previousSummary = <<MarkerSummary(1)>>

\* largest sequence among all rows of a session, 0 when it has none
LargestSequence(rows, sid) ==
    Max({0} \cup {rows[i].sequence : i \in {j \in 1..Len(rows) : rows[j].sessionId = sid}})

\* largest round among the events of a session, 0 when it has none
LargestRound(events, sid) ==
    Max({0} \cup {events[i].round : i \in {j \in 1..Len(events) : events[j].sessionId = sid}})

\* the active rows a resolved performCompaction call must leave: those that
\* were active at the call with a sequence at or above the boundary, then
\* the summary row
ActiveAfterCommit ==
    SelectSeq(getActiveMessages(snap.messages, session),
              LAMBDA r : r.sequence >= tx.beforeSequence)
    \o <<[sessionId |-> session,
          sequence |-> LargestSequence(snap.messages, session) + 1,
          role |-> "assistant",
          content |-> tx.summaryMessage.content,
          tokenCount |-> tx.summaryMessage.tokenCount,
          isCompacted |-> 0]>>

\* getLastCompactionEvent returns the event the call in progress was given
LastEventIsGiven ==
    LET last == getLastCompactionEvent(dbEvents, session)
    IN  /\ last # <<>>
        /\ last[1].round = tx.metrics.round
        /\ last[1].tokensBefore = tx.metrics.tokensBefore
        /\ last[1].tokensAfter = tx.metrics.tokensAfter

\* C16 as stated: whatever the session holds and whatever the arguments, a
\* resolved performCompaction leaves the active rows at or above the boundary
\* plus the summary row, and getLastCompactionEvent returns the given metrics.
C16_CommitEffect ==
    pc = "tx_done" =>
        /\ getActiveMessages(dbMessages, session) = ActiveAfterCommit
        /\ LastEventIsGiven

\* C16: a resolved performCompaction leaves the active rows at or above the
\* boundary plus a summary row with the largest sequence of the session + 1;
\* getLastCompactionEvent returns the given metrics when the given round is
\* larger than every round the session had recorded.
C16_CommitEffectNewestRound ==
    pc = "tx_done" =>
        /\ getActiveMessages(dbMessages, session) = ActiveAfterCommit
        /\ tx.metrics.round > LargestRound(snap.events, session) => LastEventIsGiven

C16_Witness ==
    /\ pc = "tx_done"
    /\ LargestRound(snap.events, session) = 1
    /\ tx.metrics.round = 2
    /\ Len(getActiveMessages(dbMessages, session)) >= 2
    /\ Len(getActiveMessages(dbMessages, session))
         <= Len(getActiveMessages(snap.messages, session))

\* C17: the rows of a session carry the sequences 1, 2, 3, ... in the order
\* of their insertion, retired rows included.
C17_SequencesDense ==
    \A sid \in Sessions :
        LET own == RowsOf(dbMessages, sid)
        IN  \A i \in 1..Len(own) : own[i].sequence = i

C17_Witness ==
    \E sid \in Sessions :
        LET own == RowsOf(dbMessages, sid)
        IN  /\ Len(own) >= 3
            /\ \A i \in 1..(Len(own) - 2) : own[i].isCompacted = 1
            /\ own[Len(own) - 1].role = "assistant"
            /\ own[Len(own)].role = "user"

\* C18: a step of a call for one session leaves the messages and events of
\* every other session as they were; a row inserted for a session gets the
\* largest sequence of that session's rows + 1, and the round compact assigns
\* is the largest round of that session's events + 1.
C18_SessionIsolation ==
    [][ /\ \A sid \in Sessions \ {session'} :
              /\ RowsOf(dbMessages', sid) = RowsOf(dbMessages, sid)
              /\ RowsOf(dbEvents', sid) = RowsOf(dbEvents, sid)
        /\ Len(dbMessages') > Len(dbMessages) =>
              dbMessages'[Len(dbMessages')].sequence
                  = LargestSequence(dbMessages, session') + 1
        /\ (pc = "sc_lastEvent" /\ pc' = "sc_generate") =>
              round' = LargestRound(dbEvents, session') + 1
      ]_vars

C18_Witness ==
    /\ pc = "tx_done"
    /\ result # <<>>
    /\ \E sid \in Sessions \ {session} :
          /\ RowsOf(dbEvents, sid) # <<>>
          /\ RowsOf(dbMessages, sid) # <<>>

\* C19: a step never removes a message row, never changes a field of a row
\* other than the retired flag, and never clears the retired flag.
C19_RowsOnlyRetire ==
    [][ /\ Len(dbMessages') >= Len(dbMessages)
        /\ \A i \in 1..Len(dbMessages) :
              /\ [dbMessages'[i] EXCEPT !.isCompacted = 0]
                    = [dbMessages[i] EXCEPT !.isCompacted = 0]
              /\ dbMessages'[i].isCompacted >= dbMessages[i].isCompacted
      ]_vars

C19_Witness ==
    /\ pc = "idle"
    /\ dbEvents = <<>>
    /\ Len(dbMessages) >= 3
    /\ dbMessages[1].isCompacted = 1
    /\ dbMessages[Len(dbMessages)].isCompacted = 0

\* floor((modelContextLimit - systemReserve - outputReserve - safetyBuffer)
\*       * thresholdPercent)
TriggerThreshold ==
    ((config.modelContextLimit - config.systemReserve - config.outputReserve
        - config.safetyBuffer) * config.thresholdNum) \div config.thresholdDen

\* C20: prepareStep goes into compaction exactly when the list has more than
\* keepLast + 1 messages and its estimate is at or above the threshold, and
\* the test changes neither the list, the configuration nor persistence.
C20_TriggerRule ==
    [][ pc = "prepare" =>
          /\ (pc' = "sc_compact") <=>
                (/\ Len(messages) > config.recentMessagesToKeep + 1
                 /\ estimateMessagesTokens(messages) >= TriggerThreshold)
          /\ UNCHANGED <<exec, messages, config, dbMessages, dbEvents>>
      ]_vars

C20_Witness ==
    /\ pc = "sc_compact"
    /\ estimateMessagesTokens(messages) = TriggerThreshold

\* modelContextLimit - systemReserve - outputReserve - safetyBuffer
AvailableBudget ==
    config.modelContextLimit - config.systemReserve - config.outputReserve
        - config.safetyBuffer

\* C21: the list handed to the model call of a step has an estimate within
\* the available budget, and below the threshold (compaction has brought it
\* back whenever it had reached the threshold).
C21_WithinBudget ==
    pc = "llm" =>
        /\ estimateMessagesTokens(messages) <= AvailableBudget
        /\ estimateMessagesTokens(messages) < TriggerThreshold

\* C22: a session whose status is completed or failed keeps that status.
C22_TerminalStatus ==
    [][ \A i \in 1..Len(dbSessions) :
            dbSessions[i].status \in {"completed", "failed"} =>
                /\ Len(dbSessions') >= i
                /\ dbSessions'[i].status = dbSessions[i].status
      ]_vars

\* the texts of a list: string contents and the fields of parts
FieldTexts(msgs) ==
    UNION { IF msgs[i].content.type = "string" THEN {msgs[i].content.text}
            ELSE UNION { {msgs[i].content.parts[k][f] :
                             f \in DOMAIN msgs[i].content.parts[k] \ {"type"}} :
                         k \in 1..Len(msgs[i].content.parts) } :
            i \in 1..Len(msgs) }

\* C23: a stored message is loaded with the role and the content it was
\* stored with, whatever its content: a plain string (also one that begins
\* with '__content_json__:') or a list of parts
C23_ContentRoundTrip ==
    pc = "ct_loaded" => messages = newMessages

\* C24: lengthening one text of one message never lowers the estimate of
\* the list; the estimate of a text is the least integer at or above a
\* quarter of its length, so never negative and 0 only for the empty text
C24_EstimateMonotone ==
    /\ pc = "ct_edited" =>
          /\ estimateMessagesTokens(ret[1]) >= estimateMessagesTokens(messages)
          /\ Len(ret[1]) = Len(messages)
          /\ \A i \in 2..Len(messages) : ret[1][i] = messages[i]
    /\ \A t \in FieldTexts(messages) \cup (IF pc = "ct_edited" THEN FieldTexts(ret[1]) ELSE {}) :
          /\ 4 * estimateTokens(t) >= Len(t)
          /\ 4 * (estimateTokens(t) - 1) < Len(t)
          /\ estimateTokens(t) >= 0
          /\ (estimateTokens(t) = 0 <=> t = <<>>)

C24_Witness ==
    /\ pc = "ct_edited"
    /\ messages[1].content.type = "parts"
    /\ Len(messages) = 2
    /\ estimateMessagesTokens(ret[1]) > estimateMessagesTokens(messages)

\* the messages of the rows that were active when safeCompact was entered
\* and are retired now, in sequence order
RetiredByCommit ==
    LET before == getActiveMessages(snap.messages, session)
        gone == SelectSeq(before,
                    LAMBDA row : \E i \in 1..Len(dbMessages) :
                        /\ dbMessages[i].sessionId = row.sessionId
                        /\ dbMessages[i].sequence = row.sequence
                        /\ dbMessages[i].isCompacted = 1)
    IN  [i \in 1..Len(gone) |-> dbMessageToCoreMessage(gone[i])]

\* the messages compact removed from the list: the previous summary, if
\* one was detected, and messagesToCompact
RemovedInMemory == Slice(messages, 1, result[1].boundaryIndex)

\* C25: when the commit of a round has gone through, the rows it retired
\* are the messages removed from the in-memory list, the boundary sequence
\* is that of the row of the message at the boundary index, and no message
\* of the returned list is retired
C25_RetiredAreRemoved ==
    (pc = "tx_done" /\ result # <<>>) =>
        /\ RetiredByCommit = RemovedInMemory
        /\ \E i \in 1..Len(dbMessages) :
              /\ dbMessages[i].sessionId = session
              /\ dbMessages[i].sequence = tx.beforeSequence
              /\ dbMessageToCoreMessage(dbMessages[i]) = At(messages, result[1].boundaryIndex)
        /\ \A i \in 1..Len(RetiredByCommit) :
              RetiredByCommit[i] # result[1].compactedMessages[1]

\* selectMessagesToCompact has run in the safeCompact call in progress
SelectionMade ==
    pc \in {"sc_lastEvent", "sc_generate", "sc_active", "sc_error", "tx_event",
            "tx_retire", "tx_lastSeq", "tx_summary", "tx_done", "tx_failed", "sc_returned"}

\* the largest index b <= len - keepLast with b = 1 or messages[b] not of
\* role tool
LargestSafeBoundary ==
    LET top == Len(messages) - config.recentMessagesToKeep
        Safe(b) == b = 1 \/ b >= Len(messages) \/ messages[b + 1].role # "tool"
    IN  CHOOSE b \in 1..top : Safe(b) /\ \A c \in (b + 1)..top : ~Safe(c)

\* the previous summary as a list: messages[1] when it is an assistant
\* string starting with the summary marker
PriorSummaryMessage ==
    IF /\ messages[2].role = "assistant"
       /\ messages[2].content.type = "string"
       /\ Len(messages[2].content.text) >= Len(SummaryMarker)
       /\ \A i \in 1..Len(SummaryMarker) : messages[2].content.text[i] = SummaryMarker[i]
    THEN <<messages[2]>>
    ELSE <<>>

\* C26: for a list longer than keepLast + 1 the selector's boundary is the
\* largest index b <= len - keepLast with b = 1 or messages[b] not a tool
\* message and start is 2 with a previous summary, 1 without; with
\* b <= start nothing is selected and messagesToKeep is the input; otherwise
\* messagesToCompact = messages[start .. b), messagesToKeep = [messages[0]]
\* ++ messages[b ..], and messages[0], the previous summary, messagesToCompact
\* and messagesToKeep[1:] concatenate to the input
C26_SelectionPartition ==
    (SelectionMade /\ Len(messages) > config.recentMessagesToKeep + 1) =>
        LET b == LargestSafeBoundary
            start == 1 + Len(PriorSummaryMessage)
        IN  IF b <= start
            THEN /\ selection.messagesToCompact = <<>>
                 /\ selection.messagesToKeep = messages
                 /\ selection.boundaryIndex = 0
            ELSE /\ selection.boundaryIndex = b
                 /\ selection.messagesToCompact =
                        [i \in 1..(b - start) |-> messages[start + i]]
                 /\ selection.messagesToKeep =
                        <<messages[1]>> \o [i \in 1..(Len(messages) - b) |-> messages[b + i]]
                 /\ <<messages[1]>> \o PriorSummaryMessage \o selection.messagesToCompact
                        \o Tail(selection.messagesToKeep) = messages

C26_Witness ==
    /\ SelectionMade
    /\ Len(messages) > config.recentMessagesToKeep + 1
    /\ selection.messagesToCompact # <<>>
    /\ selection.boundaryIndex < Len(messages) - config.recentMessagesToKeep
    /\ Len(selection.messagesToKeep) >= 2

\* compact has returned a result with a summary in the call in progress
Completed == SelectionMade /\ result # <<>> /\ result[1].round > 0

\* C27: a completed compaction returns [messages[0], summaryMessage] ++
\* messages[boundary ..] with the generator's text in an assistant message,
\* the selector's boundary as boundaryIndex, one model call, and the
\* estimates of the input and of the returned list as tokensBefore and
\* tokensAfter
C27_CompletedResult ==
    Completed =>
        LET b == LargestSafeBoundary
            text == result[1].summaryContent
        IN  /\ text \in ModelSummaries(result[1].round)
            /\ result[1].compactedMessages =
                    <<messages[1], [role |-> "assistant", content |-> Str(text)]>>
                        \o [i \in 1..(Len(messages) - b) |-> messages[b + i]]
            /\ result[1].boundaryIndex = b
            /\ modelCalls = 1
            /\ result[1].tokensBefore = estimateMessagesTokens(messages)
            /\ result[1].tokensAfter = estimateMessagesTokens(result[1].compactedMessages)

C27_Witness ==
    /\ Completed
    /\ modelCalls = 1
    /\ result[1].tokensAfter # result[1].tokensBefore
    /\ Len(result[1].compactedMessages) > 2

\* C28: a completed compaction returns 2 + (len - boundary) messages, never
\* more than it was given, and fewer when a previous summary was detected
\* or more than one message was summarized
C28_NeverLonger ==
    Completed =>
        LET n == Len(result[1].compactedMessages)
        IN  /\ n = 2 + (Len(messages) - LargestSafeBoundary)
            /\ n <= Len(messages)
            /\ (PriorSummaryMessage # <<>> \/ Len(selection.messagesToCompact) > 1) =>
                    n < Len(messages)

C28_Witness ==
    /\ Completed
    /\ PriorSummaryMessage # <<>>
    /\ Len(selection.messagesToCompact) = 1
    /\ Len(result[1].compactedMessages) = Len(messages) - 1

\* C29: in every round of the agent session the original task handed to
\* generateSummary is the text of the user message the session was started
\* with, never the placeholder
C29_OriginalTaskKept ==
    pc = "sc_generate" => originalTask = <<TaskText>>

\* the rows of the session after a step are those before it followed by
\* one active row per message of new, in order
PersistedInOrder(before, after, new) ==
    LET old == RowsOf(before, Sid)
        now == RowsOf(after, Sid)
    IN  /\ Len(now) = Len(old) + Len(new)
        /\ SubSeq(now, 1, Len(old)) = old
        /\ \A i \in 1..Len(new) :
              /\ now[Len(old) + i].role = new[i].role
              /\ Str(now[Len(old) + i].content) = new[i].content
              /\ now[Len(old) + i].isCompacted = 0

\* C30: each step of runAgent checks the trigger on its list, calls
\* safeCompact once if and only if shouldCompact holds, calls the model with
\* the list safeCompact returned (the step's list when there was no call),
\* whatever the outcome of the compaction, and then persists the new
\* messages of the step; a safeCompact call is always followed by the model
\* call of its step
C30_StepOrder ==
    /\ [][ /\ pc = "prepare" =>
                IF shouldCompact(messages, config)
                THEN pc' = "sc_compact" /\ messages' = messages
                ELSE pc' = "llm" /\ UNCHANGED <<exec, messages, dbMessages, dbEvents, modelCalls>>
           /\ (pc' = "sc_compact" /\ pc # "sc_compact") => pc = "prepare"
           /\ pc = "sc_returned" => (pc' = "llm" /\ messages' = ret[1])
           /\ (pc' = "llm" /\ pc # "llm") => pc \in {"prepare", "sc_returned"}
           /\ (pc' = "persist" /\ pc # "persist") =>
                (pc = "llm" /\ messages' = messages /\ newMessages' # <<>>)
           /\ pc = "persist" =>
                /\ PersistedInOrder(dbMessages, dbMessages', newMessages)
                /\ messages' = messages \o newMessages
                /\ pc' \in {"prepare", "done"}
           /\ (dbMessages' # dbMessages /\ pc \notin {"start", "tx_retire", "tx_summary"}) =>
                pc = "persist"
         ]_vars
    /\ (pc = "sc_compact") ~> (pc = "llm")

C30_Witness ==
    /\ pc = "persist"
    /\ err # "none"
    /\ ret = <<messages>>
    /\ Len(newMessages) = 2

\* no two rows of a session carry the same sequence
UniqueSequences(rows) ==
    \A i, j \in 1..Len(rows) :
        (i < j /\ rows[i].sessionId = rows[j].sessionId) =>
            rows[i].sequence # rows[j].sequence

\* the largest sequence among the rows of the session, 0 without rows
LargestSequenceOf(rows, sid) ==
    LET seqs == {rows[i].sequence : i \in {k \in 1..Len(rows) : rows[k].sessionId = sid}}
    IN  IF seqs = {} THEN 0 ELSE CHOOSE x \in seqs : \A y \in seqs : y <= x

\* C31: an insert of a writer gives an existing sequence a second row only
\* if another write to the session came between the writer's read of the
\* last sequence and its insert; an insert that follows its read directly
\* keeps the sequences unique.  (That interleaved writers do produce the
\* duplicate is the witness.)
C31_DuplicateOnlyWhenInterleaved ==
    [][ \A w \in Writers :
            ( /\ pc[w] \in {"sm_insert", "tx_summary"}
              /\ pc'[w] = "idle"
              /\ Len(dbMessages') = Len(dbMessages) + 1
              /\ UniqueSequences(dbMessages)
              /\ tx[w].lastSeq = LargestSequenceOf(dbMessages, session) )
            => /\ UniqueSequences(dbMessages')
               /\ dbMessages'[Len(dbMessages')].sequence =
                      LargestSequenceOf(dbMessages, session) + 1
      ]_vars

C31_Witness ==
    \E i, j \in 1..Len(dbMessages) :
        /\ i < j
        /\ dbMessages[i].sessionId = dbMessages[j].sessionId
        /\ dbMessages[i].sequence = dbMessages[j].sequence
        /\ dbMessages[i].role # dbMessages[j].role

\* the status of the session of the run, "none" when it has no row
StatusOf(rows) ==
    IF \E i \in 1..Len(rows) : rows[i].id = session
    THEN rows[CHOOSE i \in 1..Len(rows) : rows[i].id = session].status
    ELSE "none"

\* runSession leaves its finally block: it returns or throws
RunSessionEnds == pc = "rs_finally" /\ pc' = "rs_end"

\* C32 as stated: runSession ends its session as completed if and only if
\* startContainer and the agent run returned without error, as failed if
\* either threw, and then rethrows the original error
C32_TerminalByOutcome ==
    [][ RunSessionEnds =>
            /\ StatusOf(dbSessions') \in {"completed", "failed"}
            /\ StatusOf(dbSessions') = "completed" <=> run.outcome = "agentReturned"
            /\ run.outcome \in {"startThrew", "agentThrew"} =>
                    (StatusOf(dbSessions') = "failed" /\ run.thrown = "original")
      ]_vars

\* C32: runSession ends its session as completed if and only if
\* startContainer, the agent run and the update to completed returned
\* without error; when one of them threw it ends as failed if and only if
\* the update to failed went through, and stays active with the error of
\* that update thrown otherwise; after a failure of startContainer or of
\* the agent the error thrown with status failed is the original one,
\* unless the read for the log line of runAgentWithErrorHandling threw
C32_TerminalByOutcomeAndUpdates ==
    [][ RunSessionEnds =>
            /\ StatusOf(dbSessions') = "completed" <=>
                    (run.outcome = "agentReturned" /\ run.thrown = "none")
            /\ StatusOf(dbSessions') = "failed" <=>
                    run.thrown \in {"original", "logging", "completedUpdate"}
            /\ StatusOf(dbSessions') = "active" <=> run.thrown = "failedUpdate"
            /\ run.thrown = "completedUpdate" => run.outcome = "agentReturned"
            /\ run.thrown \in {"original", "logging"} =>
                    run.outcome \in {"startThrew", "agentThrew"}
            /\ run.thrown = "logging" => run.outcome = "agentThrew"
      ]_vars

C32_Witness ==
    /\ pc = "rs_end"
    /\ StatusOf(dbSessions) = "failed"
    /\ run.outcome = "agentThrew"
    /\ run.thrown = "original"
    /\ dbMessages # <<>>

\* C33: once startContainer has returned an id, cleanupContainer is called
\* for it exactly once on every path of runSession (agent returned, agent
\* threw, status update threw) and the tracked id is null afterwards; no
\* cleanup is called without a container; the cleanup never throws, so
\* runSession always gets past its finally block
C33_CleanupOnce ==
    /\ [](/\ run.cleanups <= 1
          /\ run.containerId = <<>> => (run.cleanups = 0 /\ run.currentContainerId = <<>>)
          /\ (run.containerId # <<>> /\ pc # "rs_end") =>
                (run.cleanups = 0 /\ run.currentContainerId = run.containerId)
          /\ (run.containerId # <<>> /\ pc = "rs_end") =>
                (run.cleanups = 1 /\ run.currentContainerId = <<>>))
    /\ (run.containerId # <<>>) ~> (pc = "rs_end" /\ run.cleanups = 1)

C33_Witness ==
    /\ pc = "rs_end"
    /\ run.cleanups = 1
    /\ run.currentContainerId = <<>>
    /\ run.thrown = "completedUpdate"

\* C34: when the process exits, the session that runSession created is
\* completed or failed, whenever the signal arrived
C34_TerminalBeforeExit ==
    pc = "exited" => StatusOf(dbSessions) \in {"none", "completed", "failed"}

FileTools == {"read_file", "write_file", "list_directory"}

EndsWith(s, p) == Len(s) >= Len(p) /\ SubSeq(s, Len(s) - Len(p) + 1, Len(s)) = p

\* C35: execute of each of the four tools returns a string and throws
\* nothing, whatever the container operation did: the formatted result of
\* a command (non-zero exit included), the stdout or the confirmation of a
\* file tool that exited with 0, a text starting with 'Error ' for a file
\* tool that exited with another code, and '[Error] <message>' for a
\* thrown error
C35_ToolsReturnStrings ==
    exec.pc = "returned" =>
        LET settled == exec.settled[1]
            text == exec.returned[1]
        IN  /\ exec.returned # <<>>
            /\ text \in Seq({text[i] : i \in 1..Len(text)})
            /\ settled.kind = "error" => text = ToolTexts.errorOpen \o settled.error.message
            /\ (settled.kind = "result" /\ exec.tool = "execute_command") =>
                    /\ StartsWith(text, settled.stdout)
                    /\ EndsWith(text, ToolTexts.exitCodeOpen \o NumberText(settled.exitCode) \o <<"]">>)
            /\ (settled.kind = "result" /\ exec.tool \in FileTools /\ settled.exitCode # 0) =>
                    StartsWith(text, <<"E", "r", "r", "o", "r", " ">>)
            /\ (settled.kind = "result" /\ exec.tool \in {"read_file", "list_directory"}
                   /\ settled.exitCode = 0) => text = settled.stdout
            /\ (settled.kind = "result" /\ exec.tool = "write_file" /\ settled.exitCode = 0) =>
                    text = ToolTexts.fileWritten \o ToolTexts.path

\* a tool has returned the text of a timeout error
C35_Witness ==
    /\ exec.pc = "returned"
    /\ exec.settled[1].kind = "error"
    /\ exec.settled[1].error.code = "COMMAND_TIMEOUT"
    /\ exec.returned = <<ToolTexts.errorOpen \o ToolTexts.timeout>>

\* C36: execInContainer throws COMMAND_TIMEOUT only for a command that was
\* still running when the timer fired and was killed by it; a command that
\* ended on its own returns its stdout, stderr and exit code
C36_TimeoutOnlyWhenKilled ==
    (exec.pc = "settled" /\ exec.settled[1].kind = "error"
        /\ exec.settled[1].error.code = "COMMAND_TIMEOUT") => exec.killed

\* C37: markMessagesCompacted(session, n) changes exactly the active rows of
\* the session with sequence < n, and only their flag, which becomes 1;
\* calling it again with the same n or with a smaller one changes nothing
C37_RetireExactlyBelow ==
    \A sid \in Sessions :
        \A n \in 0..(LastSequence(dbMessages, sid) + 2) :
            LET after == markMessagesCompacted(dbMessages, sid, n)
            IN  /\ Len(after) = Len(dbMessages)
                /\ \A i \in 1..Len(dbMessages) :
                      /\ after[i] # dbMessages[i] <=>
                            /\ dbMessages[i].sessionId = sid
                            /\ dbMessages[i].isCompacted = 0
                            /\ dbMessages[i].sequence < n
                      /\ after[i] # dbMessages[i] =>
                            after[i] = [dbMessages[i] EXCEPT !.isCompacted = 1]
                /\ \A m \in 0..n : markMessagesCompacted(after, sid, m) = after

\* markMessagesCompacted has retired the first row of a session of two
\* rows, next to an untouched session
C37_Witness ==
    /\ pc = "idle"
    /\ dbEvents = <<>>
    /\ \E sid \in Sessions :
          LET own == RowsOf(dbMessages, sid)
              other == SelectSeq(dbMessages, LAMBDA r : r.sessionId # sid)
          IN  /\ Len(own) = 2
              /\ own[1].isCompacted = 1
              /\ own[2].isCompacted = 0
              /\ markMessagesCompacted(dbMessages, sid, 2) = dbMessages
              /\ markMessagesCompacted(dbMessages, sid, 3) # dbMessages
              /\ other # <<>>
              /\ \A i \in 1..Len(other) : other[i].isCompacted = 0

\* how often a row occurs in a list of rows
Occurrences(rows, r) == Cardinality({i \in 1..Len(rows) : rows[i] = r})

\* the list holds the active rows of the session and nothing else, each as
\* often as the table holds it
ExactlyActive(list, sid) ==
    /\ \A i \in 1..Len(list) : list[i].sessionId = sid /\ list[i].isCompacted = 0
    /\ \A i \in 1..Len(dbMessages) :
          (dbMessages[i].sessionId = sid /\ dbMessages[i].isCompacted = 0) =>
              Occurrences(list, dbMessages[i]) = Occurrences(dbMessages, dbMessages[i])

\* the value is the event of the session with the largest round, or null
\* for a session without events
LargestRoundEvent(value, sid) ==
    LET own == RowsOf(dbEvents, sid)
    IN  IF own = <<>> THEN value = <<>>
        ELSE /\ value # <<>>
             /\ \E i \in 1..Len(own) : own[i] = value[1]
             /\ \A i \in 1..Len(own) : own[i].round <= value[1].round

\* C38 as stated: getActiveMessages returns exactly the active rows of the
\* session in strictly ascending sequence order, and getLastCompactionEvent
\* the event with the largest round or null
C38_ActiveStrictlyAscending ==
    \A sid \in Sessions :
        LET list == getActiveMessages(dbMessages, sid)
        IN  /\ ExactlyActive(list, sid)
            /\ \A i, j \in 1..Len(list) : i < j => list[i].sequence < list[j].sequence
            /\ LargestRoundEvent(getLastCompactionEvent(dbEvents, sid), sid)

\* C38: getActiveMessages returns exactly the active rows of the session,
\* each once, in ascending sequence order, which is strictly ascending
\* where no two active rows of the session carry the same sequence;
\* getLastCompactionEvent returns the event of the session with the largest
\* round, or null when the session has no event
C38_ActiveAscending ==
    \A sid \in Sessions :
        LET list == getActiveMessages(dbMessages, sid)
            strict == \A i, j \in 1..Len(list) :
                          i < j => list[i].sequence < list[j].sequence
            distinct == \A i, j \in 1..Len(dbMessages) :
                          (/\ i # j
                           /\ dbMessages[i].sessionId = sid
                           /\ dbMessages[j].sessionId = sid
                           /\ dbMessages[i].isCompacted = 0
                           /\ dbMessages[j].isCompacted = 0) =>
                              dbMessages[i].sequence # dbMessages[j].sequence
        IN  /\ ExactlyActive(list, sid)
            /\ \A i, j \in 1..Len(list) : i < j => list[i].sequence <= list[j].sequence
            /\ strict <=> distinct
            /\ LargestRoundEvent(getLastCompactionEvent(dbEvents, sid), sid)

\* two active rows of the session carry the same sequence next to a retired
\* row, and the session has a compaction event
C38_Witness ==
    LET list == getActiveMessages(dbMessages, Sid)
    IN  /\ \E i \in 1..Len(dbMessages) :
              dbMessages[i].sessionId = Sid /\ dbMessages[i].isCompacted = 1
        /\ \E i \in 1..(Len(list) - 1) : list[i].sequence = list[i + 1].sequence
        /\ getLastCompactionEvent(dbEvents, Sid) # <<>>

\* C39: runAgent on a session without rows saves the system prompt at
\* sequence 1 and the user task at sequence 2 and starts, before any model
\* call, with these two messages; on a session with active rows it saves
\* nothing and starts with the list loaded from them
C39_SeedOrLoad ==
    [][ (pc = "start" /\ pc' = "prepare") =>
            LET before == RowsOf(dbMessages, Sid)
                after == RowsOf(dbMessages', Sid)
                active == getActiveMessages(dbMessages', Sid)
            IN  /\ modelCalls' = 0
                /\ before = <<>> =>
                      /\ Len(after) = 2
                      /\ after[1].sequence = 1 /\ after[1].role = "system"
                      /\ after[1].content = SystemPromptText
                      /\ after[2].sequence = 2 /\ after[2].role = "user"
                      /\ after[2].content = TaskText
                      /\ active = after
                /\ getActiveMessages(dbMessages, Sid) # <<>> => dbMessages' = dbMessages
                /\ (before = <<>> \/ getActiveMessages(dbMessages, Sid) # <<>>) =>
                      /\ Len(messages') = Len(active)
                      /\ \A i \in 1..Len(active) :
                            /\ messages'[i].role = active[i].role
                            /\ messages'[i].content = Str(active[i].content)
      ]_vars

\* runAgent has started on a session with a retired row and two active rows
C39_Witness ==
    /\ pc = "prepare"
    /\ modelCalls = 0
    /\ Len(messages) = 2
    /\ Len(RowsOf(dbMessages, Sid)) = 3
    /\ RowsOf(dbMessages, Sid)[1].isCompacted = 1

====
